---- MODULE Spec2Model ----
(***************************************************************************)
(* Model of mx_handler/translation_handler.py: TranslationSettings,        *)
(* TranslationCache and TranslationHandler (language resolution with a     *)
(* fallback chain, a TTL cache and modification-time tracking).            *)
(*                                                                         *)
(* Python strings are sequences of one-character strings.  A parsed YAML   *)
(* value is a node [kind, val]:                                            *)
(*   "map"   a dict, val is a function from keys to nodes                  *)
(*   "str"   a str, val is its characters                                  *)
(*   "null"  None                                                          *)
(*   "falsy" a falsy value that is neither dict, str nor None (0, [], no)  *)
(*   "other" a truthy value that is neither dict nor str (5, [1], yes)     *)
(***************************************************************************)
EXTENDS Integers, Sequences, FiniteSets, TLC

\* ------------------------------------------------------------------------
\* Bounds of the model
\* ------------------------------------------------------------------------
MaxTime == 2

MaxWrites == 1

\* ------------------------------------------------------------------------
\* Values
\* ------------------------------------------------------------------------
Langs == {"es", "en", "de"}

NoVal == <<>>

MapNode(f) == [kind |-> "map", val |-> f]

StrNode(s) == [kind |-> "str", val |-> s]

NullNode == [kind |-> "null", val |-> NoVal]

FalsyNode == [kind |-> "falsy", val |-> NoVal]

OtherNode == [kind |-> "other", val |-> NoVal]

\* what yaml.safe_load raises yaml.YAMLError on
YamlErrorDoc == [kind |-> "yamlerror", val |-> NoVal]

\* the dict {}
EmptyTree == MapNode([k \in {} |-> NullNode])

\* no tree (a call that returned no tree / a cache miss: Python None)
NoTree == [kind |-> "none", val |-> NoVal]

\* bool(value) of Python
Truthy(n) ==
    CASE n.kind = "map" -> DOMAIN n.val # {}
      [] n.kind = "str" -> n.val # <<>>
      [] n.kind = "other" -> TRUE
      [] OTHER -> FALSE

Digits == {"0", "1"}

\* ------------------------------------------------------------------------
\* str.format(**placeholders)
\* ------------------------------------------------------------------------
\* position of the first "}" of s at or after i, 0 if there is none
RECURSIVE FindClose(_, _)
FindClose(s, i) ==
    IF i > Len(s) THEN 0
    ELSE IF s[i] = "}" THEN i
    ELSE FindClose(s, i + 1)

FmtCons(c, r) == IF r.err # "none" THEN r ELSE [err |-> "none", out |-> c \o r.out]

\* str.format on s[i..]: the rendered text, or the exception it raises
RECURSIVE FormatFrom(_, _, _)
FormatFrom(s, i, placeholders) ==
    IF i > Len(s) THEN [err |-> "none", out |-> <<>>]
    ELSE IF s[i] = "{" THEN
        IF i < Len(s) /\ s[i + 1] = "{"
        THEN FmtCons(<<"{">>, FormatFrom(s, i + 2, placeholders))
        ELSE LET j == FindClose(s, i + 1)
                 name == SubSeq(s, i + 1, j - 1)
             IN  IF j = 0 THEN [err |-> "ValueError", out |-> <<>>]
                 ELSE IF \E k \in 1..Len(name) : name[k] = "{"
                      THEN [err |-> "ValueError", out |-> <<>>]
                 ELSE IF \A k \in 1..Len(name) : name[k] \in Digits
                      THEN [err |-> "IndexError", out |-> <<>>]
                 ELSE IF name \notin DOMAIN placeholders
                      THEN [err |-> "KeyError", out |-> <<>>]
                 ELSE FmtCons(placeholders[name], FormatFrom(s, j + 1, placeholders))
    ELSE IF s[i] = "}" THEN
        IF i < Len(s) /\ s[i + 1] = "}"
        THEN FmtCons(<<"}">>, FormatFrom(s, i + 2, placeholders))
        ELSE [err |-> "ValueError", out |-> <<>>]
    ELSE FmtCons(<<s[i]>>, FormatFrom(s, i + 1, placeholders))

\* the slip of an except branch that does not return the template
FormatOrRaw_NoTemplate(value, placeholders) == FormatFrom(value, 1, placeholders).out

\* try: return value.format(**placeholders) / except ...: return value
FormatOrRaw(value, placeholders) ==
    LET r == FormatFrom(value, 1, placeholders)
    IN  IF r.err = "none" THEN r.out ELSE value

\* ------------------------------------------------------------------------
\* path.split(".") and the walk through the nested structure
\* ------------------------------------------------------------------------
RECURSIVE SplitDots(_, _, _)
SplitDots(s, i, cur) ==
    IF i > Len(s) THEN <<cur>>
    ELSE IF s[i] = "." THEN <<cur>> \o SplitDots(s, i + 1, <<>>)
    ELSE SplitDots(s, i + 1, Append(cur, s[i]))

\* a path argument is [isstr |-> TRUE, s |-> characters] or
\* [isstr |-> FALSE, s |-> list of segments]
ParsePath(path) == IF path.isstr THEN SplitDots(path.s, 1, <<>>) ELSE path.s

\* dict.get(key): every key of the modelled trees is one character long, or
\* the empty string
DictGet(m, key) ==
    IF Len(key) = 1 /\ key[1] \in DOMAIN m THEN m[key[1]]
    ELSE IF key = <<>> /\ "" \in DOMAIN m THEN m[""]
    ELSE NullNode

\* the slip of testing "not a dict" in place of "is a str"
IsStr_NotDict(value) == value.kind # "map"

\* isinstance(value, str)
IsStr(value) == value.kind = "str"

\* value is None
IsNone(value) == value.kind = "null"

\* the for loop over the path, then the isinstance(value, str) test; the
\* result is [found |-> TRUE, value |-> the str] or found |-> FALSE (default)
RECURSIVE Walk(_, _, _)
Walk(value, segs, i) ==
    IF i > Len(segs)
    THEN IF IsStr(value) THEN [found |-> TRUE, value |-> value.val]
         ELSE [found |-> FALSE, value |-> <<>>]
    ELSE IF value.kind # "map" THEN [found |-> FALSE, value |-> <<>>]
    ELSE LET nxt == DictGet(value.val, segs[i])
         IN  IF IsNone(nxt) THEN [found |-> FALSE, value |-> <<>>]
             ELSE Walk(nxt, segs, i + 1)

\* the slip of returning the key path, not the default, for a missing key
Resolve_KeyForMissing(messages, path, default, placeholders) ==
    LET w == Walk(messages, ParsePath(path), 1)
    IN  IF w.found THEN FormatOrRaw(w.value, placeholders) ELSE path.s

\* lines 421-423 and 433-461 of get, given the loaded messages
Resolve(messages, path, default, placeholders) ==
    LET w == Walk(messages, ParsePath(path), 1)
    IN  IF w.found THEN FormatOrRaw(w.value, placeholders) ELSE default

\* the slip of an except branch of get_async that does not return the template
FormatOrRawAsync_NoTemplate(value, placeholders) ==
    FormatFrom(value, 1, placeholders).out

\* lines 499-503 of get_async: one branch, "except Exception", returns value
FormatOrRawAsync(value, placeholders) ==
    LET r == FormatFrom(value, 1, placeholders)
    IN  IF r.err # "none" THEN value ELSE r.out

\* lines 483-484 and 487-503 of get_async, given the loaded messages
ResolveAsync(messages, path, default, placeholders) ==
    LET w == Walk(messages, ParsePath(path), 1)
    IN  IF ~w.found THEN default ELSE FormatOrRawAsync(w.value, placeholders)

\* ------------------------------------------------------------------------
\* Sources on disk: {translation_path}/{code}.yaml
\* ------------------------------------------------------------------------
\* a YAML document is modelled by the value yaml.safe_load gives for it
DocEn ==
    MapNode([a |-> MapNode([b |-> StrNode(<<"H", "{", "n", "}">>), c |-> OtherNode]),
             d |-> StrNode(<<"E">>)])

DocDe ==
    MapNode([a |-> MapNode([b |-> StrNode(<<"G", "{", "n", "}">>)]),
             d |-> StrNode(<<"D">>)])

\* a new version of a source: a tree without the key paths a.b and d
DocNew == MapNode([a |-> StrNode(<<"S">>)])

\* what a source can be overwritten with
WriteDocs == {DocNew, EmptyTree, FalsyNode, OtherNode, YamlErrorDoc}

\* the changes of the sources that are explored: es.yaml is written with
\* any document, en.yaml with a new tree
WritesOf(l) ==
    CASE l = "es" -> WriteDocs
      [] l = "en" -> {DocNew}
      [] OTHER -> {}

\* status of a source:
\*   "absent"     no such file
\*   "present"    the file can be stat-ed and opened
\*   "unreadable" the file can be stat-ed, open() raises (EACCES on the file)
\*   "staterr"    stat fails with an errno pathlib does not ignore
\*                (EACCES on the directory, ENAMETOOLONG)
FileStatus == {"absent", "present", "unreadable", "staterr"}

AbsentFile == [status |-> "absent", mtime |-> 0, doc |-> NullNode]

\* ------------------------------------------------------------------------
\* Program constants
\* ------------------------------------------------------------------------
\* TranslationSettings.cache_ttl_minutes: int = 30
DefaultCacheTtl == 30

\* values of the optional arguments of settings(): None
NoneTtl == -1

NoneChain == <<"None">>

NoneLang == "None"

NonePath == "None"

\* an argument left out of a call: the parameter takes its default
Omitted == "omitted"

\* TranslationSettings.translation_path = Path("translation") / "messages"
DefaultPath == "translation/messages"

\* another directory settings(path=...) can name
AltPath == "locales"

\* what settings() is called with
Chains == {<<"de">>}

Ttls == {1}

VARIABLES
    fallback_languages,  \* TranslationSettings.fallback_languages
    default_language,    \* TranslationSettings.default_language
    cache_ttl_minutes,   \* TranslationSettings.cache_ttl_minutes
    has_cache,           \* TranslationHandler._cache is not None
    cache,               \* TranslationCache._cache
    timestamps,          \* TranslationCache._timestamps
    ttl,                 \* TranslationCache._ttl (minutes)
    file_watchers,       \* TranslationHandler._file_watchers
    files,               \* the sources on disk
    now,                 \* datetime.now(), in minutes
    writes,              \* number of changes made to the sources so far
    last,                \* the last call: its arguments, result and I/O
    translation_path,    \* TranslationSettings.translation_path
    logging_enabled,     \* TranslationSettings.logging_enabled
    colored_logging,     \* TranslationSettings.colored_logging
    log_level,           \* TranslationSettings.log_level
    colorama_available,  \* COLORAMA_AVAILABLE
    requested,           \* the codes load_messages was called with so far
    tasks,               \* the coroutines in flight: position and locals
    locked,              \* TranslationCache._lock.locked()
    dir_status,          \* what a stat of the directory DefaultPath gives
    stored_ttl,          \* for each cache entry, the TTL in force when it was set
    checker_settings,    \* the class attributes of UpdateCheckerSettings
    version_file,        \* the local version file on disk
    checker,             \* the last VersionChecker(...) call and what it gave
    upd                  \* the VersionChecker it made: the stored result, the
                         \* auto-check task, and its last check_for_updates call

\* the options of TranslationSettings beyond the fallback chain, the default
\* language and the TTL
cfgaux == <<translation_path, logging_enabled, colored_logging, log_level,
            colorama_available>>

\* what only the specifications of the later sections change
ver == <<checker_settings, version_file, checker, upd>>

aux == <<requested, tasks, locked, dir_status, stored_ttl, ver>>

vars == <<fallback_languages, default_language, cache_ttl_minutes, has_cache,
          cache, timestamps, ttl, file_watchers, files, now, writes, last,
          cfgaux, aux>>

EmptyFn == [k \in {} |-> 0]

FnSet(f, key, v) == [k \in DOMAIN f \cup {key} |-> IF k = key THEN v ELSE f[k]]

FnDel(f, key) == [k \in DOMAIN f \ {key} |-> f[k]]

\* ------------------------------------------------------------------------
\* TranslationCache; co is the cache object [cache, timestamps, ttl]
\* ------------------------------------------------------------------------
TranslationCache(ttl_minutes) ==
    [cache |-> EmptyFn, timestamps |-> EmptyFn, ttl |-> ttl_minutes]

\* the slip of treating every entry as expired
Expired_AtOnce(co, key, t) == TRUE

\* the expiry test of TranslationCache.get
Expired(co, key, t) == t - co.timestamps[key] > co.ttl

\* the slip of returning an entry whatever its age
cache_get_NoExpiry(co, key, t) ==
    IF key \notin DOMAIN co.cache THEN [value |-> NoTree, co |-> co]
    ELSE [value |-> co.cache[key], co |-> co]

\* TranslationCache.get: the value returned and the cache afterwards
cache_get(co, key, t) ==
    IF key \notin DOMAIN co.cache THEN [value |-> NoTree, co |-> co]
    ELSE IF Expired(co, key, t)
         THEN [value |-> NoTree,
               co |-> [co EXCEPT !.cache = FnDel(co.cache, key),
                                 !.timestamps = FnDel(co.timestamps, key)]]
         ELSE [value |-> co.cache[key], co |-> co]

\* TranslationCache.set
cache_set(co, key, value, t) ==
    [co EXCEPT !.cache = FnSet(co.cache, key, value),
               !.timestamps = FnSet(co.timestamps, key, t)]

\* TranslationCache.clear; key = NoneLang or "" clears everything
cache_clear(co, key) ==
    IF key # NoneLang /\ key # ""
    THEN [co EXCEPT !.cache = FnDel(co.cache, key),
                    !.timestamps = FnDel(co.timestamps, key)]
    ELSE [co EXCEPT !.cache = EmptyFn, !.timestamps = EmptyFn]

\* TranslationHandler._ensure_cache
ensure_cache ==
    IF has_cache THEN [cache |-> cache, timestamps |-> timestamps, ttl |-> ttl]
    ELSE TranslationCache(cache_ttl_minutes)

\* ------------------------------------------------------------------------
\* TranslationHandler.load_messages
\* ------------------------------------------------------------------------
\* I/O events of a call, in order: <<"exists", code>>, <<"stat", code>>,
\* <<"read", code>> (open + yaml.safe_load)
IoOf(kind, code) == <<kind, code>>

\* the slip of leaving out "or {}"
LoadedOrEmpty_NoDefault(doc) == doc

\* yaml.safe_load(f) or {}
LoadedOrEmpty(doc) == IF Truthy(doc) THEN doc ELSE EmptyTree

\* isinstance(data, dict)
IsDict(data) == data.kind = "map"

\* the test of line 352
Unchanged(fw, code, mtime, force_reload) ==
    code \in DOMAIN fw /\ fw[code] = mtime /\ ~force_reload

\* the slip of storing a tree under the candidate that was read
StoreKey_Candidate(lang_code, code) == code

\* the key that a successfully read tree is stored under (line 367)
StoreKey(lang_code, code) == lang_code

\* the sources of the directory AltPath (they never change): de.yaml only
DocAlt == MapNode([a |-> MapNode([b |-> StrNode(<<"L">>)])])

AltFiles ==
    [l \in Langs |-> IF l = "de" THEN [status |-> "present", mtime |-> 0, doc |-> DocAlt]
                     ELSE AbsentFile]

\* file_path = translation_path / f"{code}.yaml" (line 343): nothing can be
\* stat-ed below a directory whose stat fails, nothing exists below a
\* directory that does not
FileAt(path, code) ==
    IF path # DefaultPath THEN AltFiles[code]
    ELSE IF dir_status = "staterr" THEN [files[code] EXCEPT !.status = "staterr"]
    ELSE IF dir_status = "absent" THEN AbsentFile
    ELSE files[code]

\* the slip of caching the parsed value and recording the modification time
\* before the structure is validated (lines 367-368 ahead of line 362)
TryCandidate_StoreBeforeValidate(code, lang_code, force_reload, st) ==
    LET f == FileAt(translation_path, code)
        mtime == f.mtime
        io2 == Append(st.io, IoOf("stat", code))
        unchanged == Unchanged(st.fw, code, mtime, force_reload)
        g == IF unchanged THEN cache_get(st.co, code, now)
             ELSE [value |-> NoTree, co |-> st.co]
        io3 == Append(io2, IoOf("read", code))
        data == LoadedOrEmpty(f.doc)
        stored == cache_set(g.co, StoreKey(lang_code, code), data, now)
        skip == [done |-> FALSE, raised |-> "none", tree |-> NoTree, via |-> "none",
                 src |-> code, co |-> g.co, fw |-> st.fw, io |-> io3]
    IN  IF unchanged /\ Truthy(g.value)
        THEN [done |-> TRUE, raised |-> "none", tree |-> g.value, via |-> "unchanged",
              src |-> code, co |-> g.co, fw |-> st.fw, io |-> io2]
        ELSE IF f.status = "unreadable" THEN skip
        ELSE IF f.doc.kind = "yamlerror" THEN skip
        ELSE IF ~IsDict(data)
        THEN [skip EXCEPT !.co = stored, !.fw = FnSet(st.fw, code, mtime)]
        ELSE [done |-> TRUE, raised |-> "none", tree |-> data, via |-> "read",
              src |-> code, co |-> stored,
              fw |-> FnSet(st.fw, code, mtime), io |-> io3]

\* lines 349-385 for one candidate whose file exists; st = [co, fw, io].
\* done = FALSE is "continue"
TryCandidate(code, lang_code, force_reload, st) ==
    LET f == FileAt(translation_path, code)
        mtime == f.mtime
        io2 == Append(st.io, IoOf("stat", code))
        unchanged == Unchanged(st.fw, code, mtime, force_reload)
        g == IF unchanged THEN cache_get(st.co, code, now)
             ELSE [value |-> NoTree, co |-> st.co]
        io3 == Append(io2, IoOf("read", code))
        data == LoadedOrEmpty(f.doc)
        skip == [done |-> FALSE, raised |-> "none", tree |-> NoTree, via |-> "none",
                 src |-> code, co |-> g.co, fw |-> st.fw, io |-> io3]
    IN  IF unchanged /\ Truthy(g.value)
        THEN [done |-> TRUE, raised |-> "none", tree |-> g.value, via |-> "unchanged",
              src |-> code, co |-> g.co, fw |-> st.fw, io |-> io2]
        ELSE IF f.status = "unreadable" THEN skip
        ELSE IF f.doc.kind = "yamlerror" THEN skip
        ELSE IF ~IsDict(data) THEN skip
        ELSE [done |-> TRUE, raised |-> "none", tree |-> data, via |-> "read",
              src |-> code,
              co |-> cache_set(g.co, StoreKey(lang_code, code), data, now),
              fw |-> FnSet(st.fw, code, mtime), io |-> io3]

\* the slip of forgetting the recorded modification times on exhaustion
Exhausted_DropWatchers(lang_code, st) ==
    [raised |-> "none", tree |-> EmptyTree, via |-> "exhausted", src |-> NoneLang,
     co |-> cache_set(st.co, lang_code, EmptyTree, now), fw |-> EmptyFn, io |-> st.io]

\* lines 387-392
Exhausted(lang_code, st) ==
    [raised |-> "none", tree |-> EmptyTree, via |-> "exhausted", src |-> NoneLang,
     co |-> cache_set(st.co, lang_code, EmptyTree, now), fw |-> st.fw, io |-> st.io]

\* file_path.exists() of line 345 (pathlib of CPython up to 3.13): True,
\* False, or the OSError of a stat whose errno pathlib does not ignore
PathExists(f) ==
    CASE f.status = "staterr" -> "OSError"
      [] f.status = "absent" -> "False"
      [] OTHER -> "True"

\* the for loop of line 342 from candidate i on; line 345 is outside the try
RECURSIVE FallbackLoop(_, _, _, _, _)
FallbackLoop(cands, i, lang_code, force_reload, st) ==
    IF i > Len(cands) THEN Exhausted(lang_code, st)
    ELSE LET code == cands[i]
             f == FileAt(translation_path, code)
             st1 == [st EXCEPT !.io = Append(st.io, IoOf("exists", code))]
         IN  IF PathExists(f) = "OSError"
             THEN [raised |-> "OSError", tree |-> NoTree, via |-> "raise",
                   src |-> code, co |-> st1.co, fw |-> st1.fw, io |-> st1.io]
             ELSE IF PathExists(f) = "False"
             THEN FallbackLoop(cands, i + 1, lang_code, force_reload, st1)
             ELSE LET t == TryCandidate(code, lang_code, force_reload, st1)
                  IN  IF t.done
                      THEN [raised |-> t.raised, tree |-> t.tree, via |-> t.via,
                            src |-> t.src, co |-> t.co, fw |-> t.fw, io |-> t.io]
                      ELSE FallbackLoop(cands, i + 1, lang_code, force_reload,
                                        [co |-> t.co, fw |-> t.fw, io |-> t.io])

\* the slip "if cached:" in place of "if cached is not None:"
CacheHit_Truthy(cached) == Truthy(cached)

\* cached is not None (line 337)
CacheHit(cached) == cached.kind # "none"

\* (lang_code, *cls._settings.fallback_languages)
Candidates(lang_code) == <<lang_code>> \o fallback_languages

\* lines 335-392 with the cache st.co and the file watchers st.fw, and with
\* the candidate tuple of line 342 given: the tree returned (or the exception
\* raised), how it was obtained, and the cache, the file watchers and the I/O
\* afterwards
load_in(st, cands, lang_code, force_reload) ==
    LET g == IF ~force_reload THEN cache_get(st.co, lang_code, now)
             ELSE [value |-> NoTree, co |-> st.co]
    IN  IF ~force_reload /\ CacheHit(g.value)
        THEN [raised |-> "none", tree |-> g.value, via |-> "cache", src |-> NoneLang,
              co |-> g.co, fw |-> st.fw, io |-> <<>>]
        ELSE FallbackLoop(cands, 1, lang_code, force_reload,
                          [co |-> g.co, fw |-> st.fw, io |-> <<>>])

\* the cache and the file watchers a call finds, after _ensure_cache
Entry == [co |-> ensure_cache, fw |-> file_watchers]

\* lines 332-392 with the candidate tuple of line 342 given
load_from(cands, lang_code, force_reload) ==
    load_in(Entry, cands, lang_code, force_reload)

\* load_messages(lang_code, force_reload)
load_messages(lang_code, force_reload) ==
    load_from(Candidates(lang_code), lang_code, force_reload)

\* ------------------------------------------------------------------------
\* Calls
\* ------------------------------------------------------------------------
\* the default argument get / get_async are called with
Default == <<"X">>

PathStr(s) == [isstr |-> TRUE, s |-> s]

PathList(s) == [isstr |-> FALSE, s |-> s]

NoPath == PathList(<<>>)

\* the key paths get / get_async are called with
GetPaths == {PathStr(<<"a", ".", "b">>)}

PhNone == EmptyFn

PhN == [x \in {<<"n">>} |-> <<"A">>]

GetPlaceholders == {PhN}

\* what the preference store did when it was asked for a language:
\*   "nostore"  the bot has no settings_db attribute
\*   "returns"  the lookup returned val: a code, "" or None (NoneLang)
\*   "raises"   the lookup raised an Exception
NoLookup == [kind |-> "nostore", val |-> NoneLang]

\* the results of validate_translations as initialised in lines 646-652, with
\* the numbers of errors and warnings
NoReport == [valid |-> TRUE, errors |-> 0, warnings |-> 0, missing |-> {}, extra |-> {}]

NoCall ==
    [op |-> "none", lang |-> NoneLang, force |-> FALSE, running |-> FALSE,
     path |-> NoPath, default |-> <<>>, ph |-> PhNone, raised |-> "none", tree |-> NoTree,
     via |-> "none", src |-> NoneLang, io |-> <<>>, text |-> <<>>,
     results |-> EmptyFn, report |-> NoReport, lookup |-> NoLookup]

\* the record of a call that ran load_messages with outcome r
CallOf(op, lang_code, force_reload, r) ==
    [NoCall EXCEPT !.op = op, !.lang = lang_code, !.force = force_reload,
                   !.raised = r.raised, !.tree = r.tree, !.via = r.via,
                   !.src = r.src, !.io = r.io]

\* the state that load_messages leaves
Commit(r) ==
    /\ has_cache' = TRUE
    /\ cache' = r.co.cache
    /\ timestamps' = r.co.timestamps
    /\ ttl' = r.co.ttl
    /\ file_watchers' = r.fw

\* lines 426-431 of get: loop.run_until_complete raises RuntimeError inside
\* a running event loop, and so does asyncio.run in the except branch
SyncWrapperRaises(running) == running

\* the class attributes of TranslationSettings, lines 58-64
InitSettings ==
    /\ translation_path = DefaultPath
    /\ logging_enabled = TRUE
    /\ colored_logging = TRUE
    /\ log_level = "INFO"

\* no call was made, no coroutine is in flight
NoTasks == <<>>

\* current_version: Optional[str] = None, and version_file_path = None
NoneVersion == <<"None">>

\* update_checker.py, lines 79-80 and 94: the class attributes that
\* VersionChecker.__init__ reads
DefaultCheckerSettings ==
    [version_file_path |-> NoneVersion, auto_read_version |-> TRUE,
     check_interval |-> 24, auto_check_on_start |-> TRUE]

\* no VersionChecker was constructed yet
NoChecker ==
    [made |-> FALSE, arg |-> NoneVersion, running |-> FALSE, raised |-> "none",
     current_version |-> [major |-> 0, minor |-> 0, patch |-> 0,
                          release_type |-> "unknown", raw |-> <<>>],
     task |-> FALSE]

\* self._last_check = None
NoneTime == -1

\* self._cached_result = None, and the result of no call
NoResult ==
    [error |-> FALSE, update_available |-> FALSE, current_version |-> <<>>,
     latest_version |-> NoneVersion, is_prerelease |-> FALSE, is_dev_build |-> FALSE,
     release_notes |-> "None"]

\* no check_for_updates call was made; of a call: its argument, whether it
\* fetched, the response if it did, its result, and the stored result and the
\* time of the last check as they were before it
NoCheck ==
    [op |-> "none", force |-> FALSE, by |-> "none", fetched |-> FALSE,
     response |-> [ok |-> FALSE, text |-> <<>>], notes_fetched |-> FALSE,
     result |-> NoResult, stored_before |-> NoResult, checked_before |-> NoneTime]

\* lines 329-330: a VersionChecker as __init__ leaves it, with the auto-check
\* task of line 341 not created
NewInstance ==
    [exists |-> FALSE, current_version |-> NoChecker.current_version,
     last_check |-> NoneTime, cached_result |-> NoResult,
     auto |-> "none", auto_checks |-> 0, auto_raised |-> "none", call |-> NoCheck]

InitVer ==
    /\ checker_settings = DefaultCheckerSettings
    /\ version_file = [status |-> "absent", text |-> <<>>]
    /\ checker = NoChecker
    /\ upd = NewInstance

InitAux ==
    /\ requested = {}
    /\ tasks = NoTasks
    /\ locked = FALSE
    /\ dir_status = "present"
    /\ stored_ttl = EmptyFn
    /\ InitVer

Init ==
    /\ fallback_languages = <<"en", "de">>
    /\ default_language = "en"
    /\ cache_ttl_minutes = DefaultCacheTtl
    /\ has_cache = FALSE
    /\ cache = EmptyFn
    /\ timestamps = EmptyFn
    /\ ttl = 0
    /\ file_watchers = EmptyFn
    /\ files = [l \in Langs |->
                  CASE l = "en" -> [status |-> "present", mtime |-> 0, doc |-> DocEn]
                    [] l = "de" -> [status |-> "present", mtime |-> 0, doc |-> DocDe]
                    [] OTHER -> AbsentFile]
    /\ now = 0
    /\ writes = 0
    /\ last = NoCall
    /\ InitSettings
    /\ colorama_available = TRUE
    /\ InitAux

\* the value a parameter takes: the argument, or its default when left out
ArgOr(arg, dflt) == IF arg = Omitted THEN dflt ELSE arg

\* a bool argument ("True" or "False") as a truth value
IsTrue(arg) == arg = "True"

\* str.upper on the log levels callers pass
Upper(s) ==
    CASE s = "debug" -> "DEBUG"
      [] s = "info" -> "INFO"
      [] OTHER -> s

\* TranslationSettings.configure, lines 98-114: logging, colored and log_level
\* default to True, True and "INFO" and are assigned unconditionally
configure(path, fallback_langs, default_lang, cache_ttl, logging, colored, level) ==
    /\ translation_path' = IF path # NonePath THEN path ELSE translation_path
    /\ fallback_languages' =
          IF fallback_langs # NoneChain THEN fallback_langs ELSE fallback_languages
    /\ default_language' =
          IF default_lang # NoneLang THEN default_lang ELSE default_language
    /\ cache_ttl_minutes' =
          IF cache_ttl # NoneTtl THEN cache_ttl ELSE cache_ttl_minutes
    /\ logging_enabled' = IsTrue(ArgOr(logging, "True"))
    /\ colored_logging' = (IsTrue(ArgOr(colored, "True")) /\ colorama_available)
    /\ log_level' = Upper(ArgOr(level, "INFO"))
    /\ UNCHANGED colorama_available

\* the test of line 305
NewCacheWarranted_Always(cache_ttl) == TRUE

NewCacheWarranted(cache_ttl) == ~has_cache \/ cache_ttl # NoneTtl

\* TranslationHandler.settings, lines 294-309
Settings(path, fallback_langs, default_lang, cache_ttl, logging, colored, level) ==
    /\ configure(path, fallback_langs, default_lang, cache_ttl, logging, colored, level)
    /\ IF NewCacheWarranted(cache_ttl)
       THEN /\ has_cache' = TRUE
            /\ cache' = EmptyFn
            /\ timestamps' = EmptyFn
            /\ ttl' = IF cache_ttl # NoneTtl THEN cache_ttl ELSE cache_ttl_minutes'
       ELSE IF has_cache /\ cache_ttl # NoneTtl
       THEN /\ ttl' = cache_ttl
            /\ UNCHANGED <<has_cache, cache, timestamps>>
       ELSE UNCHANGED <<has_cache, cache, timestamps, ttl>>
    /\ last' = NoCall
    /\ UNCHANGED <<file_watchers, files, now, writes, aux>>

\* TranslationSettings.configure called directly
Configure(path, fallback_langs, default_lang, cache_ttl, logging, colored, level) ==
    /\ configure(path, fallback_langs, default_lang, cache_ttl, logging, colored, level)
    /\ last' = NoCall
    /\ UNCHANGED <<has_cache, cache, timestamps, ttl, file_watchers, files, now,
                   writes, aux>>

\* await TranslationHandler.load_messages(lang_code, force_reload)
LoadMessages(lang_code, force_reload) ==
    LET r == load_messages(lang_code, force_reload)
    IN  /\ Commit(r)
        /\ last' = CallOf("load_messages", lang_code, force_reload, r)
        /\ UNCHANGED <<fallback_languages, default_language, cache_ttl_minutes,
                       files, now, writes, cfgaux, aux>>

\* get_async(lang_code, path, default, **placeholders): what load_messages
\* gives, and the string returned
get_async(lang_code, path, default, placeholders) ==
    LET r == load_messages(lang_code, FALSE)
    IN  [load |-> r,
         text |-> IF r.raised = "none"
                  THEN ResolveAsync(r.tree, path, default, placeholders)
                  ELSE <<>>]

\* get(lang_code, path, default, **placeholders) where the sync wrapper of
\* lines 426-431 can run the coroutine
get(lang_code, path, default, placeholders) ==
    LET r == load_messages(lang_code, FALSE)
    IN  [load |-> r,
         text |-> IF r.raised = "none"
                  THEN Resolve(r.tree, path, default, placeholders)
                  ELSE <<>>]

\* await TranslationHandler.get_async(lang_code, path, default, **placeholders)
GetAsync(lang_code, path, default, placeholders) ==
    LET g == get_async(lang_code, path, default, placeholders)
        r == g.load
        c == CallOf("get_async", lang_code, FALSE, r)
    IN  /\ Commit(r)
        /\ last' = [c EXCEPT !.path = path, !.default = default, !.ph = placeholders,
                             !.text = g.text]
        /\ UNCHANGED <<fallback_languages, default_language, cache_ttl_minutes,
                       files, now, writes, cfgaux, aux>>

\* TranslationHandler.get(lang_code, path, default, **placeholders), called
\* with (running) or without a running event loop in the calling thread
Get(lang_code, path, default, placeholders, running) ==
    IF SyncWrapperRaises(running)
    THEN /\ last' = [NoCall EXCEPT !.op = "get", !.lang = lang_code,
                                   !.running = running, !.path = path,
                                   !.default = default,
                                   !.ph = placeholders, !.raised = "RuntimeError",
                                   !.via = "raise"]
         /\ UNCHANGED <<fallback_languages, default_language, cache_ttl_minutes,
                        has_cache, cache, timestamps, ttl, file_watchers, files,
                        now, writes, cfgaux, aux>>
    ELSE LET g == get(lang_code, path, default, placeholders)
             r == g.load
             c == CallOf("get", lang_code, FALSE, r)
         IN  /\ Commit(r)
             /\ last' = [c EXCEPT !.running = running, !.path = path,
                                  !.default = default,
                                  !.ph = placeholders,
                                  !.text = g.text]
             /\ UNCHANGED <<fallback_languages, default_language, cache_ttl_minutes,
                            files, now, writes, cfgaux, aux>>

\* await TranslationHandler.clear_cache(lang_code)
ClearCache(lang_code) ==
    LET co == cache_clear(ensure_cache, lang_code)
    IN  /\ has_cache' = TRUE
        /\ cache' = co.cache
        /\ timestamps' = co.timestamps
        /\ ttl' = co.ttl
        /\ file_watchers' = IF lang_code # NoneLang /\ lang_code # ""
                            THEN FnDel(file_watchers, lang_code)
                            ELSE EmptyFn
        /\ last' = NoCall
        /\ UNCHANGED <<fallback_languages, default_language, cache_ttl_minutes,
                       files, now, writes, cfgaux, aux>>

\* a minute passes. The clock is read only to stamp an entry and to compare
\* an entry's age with the TTL, so a minute is explored only while the cache
\* holds an entry that can age out before MaxTime
Tick ==
    /\ now < MaxTime
    /\ has_cache /\ ttl <= MaxTime /\ DOMAIN cache # {}
    /\ now' = now + 1
    /\ last' = NoCall
    /\ UNCHANGED <<fallback_languages, default_language, cache_ttl_minutes,
                   has_cache, cache, timestamps, ttl, file_watchers, files, writes,
                   cfgaux, aux>>

EnvFrame ==
    /\ writes' = writes + 1
    /\ last' = NoCall
    /\ UNCHANGED <<fallback_languages, default_language, cache_ttl_minutes,
                   has_cache, cache, timestamps, ttl, file_watchers, now,
                   cfgaux, aux>>

\* a source is written (created or modified); its modification time is new
WriteFile(l, doc) ==
    /\ writes < MaxWrites
    /\ files' = [files EXCEPT ![l] = [status |-> "present", mtime |-> writes + 1,
                                      doc |-> doc]]
    /\ EnvFrame

\* a source is deleted
DeleteFile(l) ==
    /\ writes < MaxWrites
    /\ files[l].status # "absent"
    /\ files' = [files EXCEPT ![l] = AbsentFile]
    /\ EnvFrame

\* a source (or its directory) loses its access permissions
ChmodFile(l, status) ==
    /\ writes < MaxWrites
    /\ files[l].status = "present"
    /\ files' = [files EXCEPT ![l].status = status]
    /\ EnvFrame

\* the languages load_messages is called with ("de" is a fallback only);
\* get and get_async are called for "es"
RequestLangs == {"es", "en"}

Next ==
    \/ \E fl \in Chains \cup {NoneChain}, t \in Ttls \cup {NoneTtl} :
          Settings(NonePath, fl, NoneLang, t, Omitted, Omitted, Omitted)
    \/ \E l \in RequestLangs, force \in BOOLEAN : LoadMessages(l, force)
    \/ \E p \in GetPaths, ph \in GetPlaceholders : GetAsync("es", p, Default, ph)
    \/ \E p \in GetPaths, ph \in GetPlaceholders, running \in BOOLEAN :
          Get("es", p, Default, ph, running)
    \/ \E l \in RequestLangs \cup {NoneLang} : ClearCache(l)
    \/ Tick
    \/ \E l \in Langs : \E doc \in WritesOf(l) : WriteFile(l, doc)
    \/ \E l \in Langs : DeleteFile(l)
    \/ \E s \in {"unreadable", "staterr"} : ChmodFile("en", s)

Spec == Init /\ [][Next]_vars

\* ------------------------------------------------------------------------
\* Notions the properties are stated with
\* ------------------------------------------------------------------------
\* calls that run load_messages
LoadOps == {"load_messages", "get_async", "get"}

GetOps == {"get_async", "get"}

\* the last step was a call that ran load_messages and returned
Returned == last.op \in LoadOps /\ last.raised = "none"

\* the source of l exists and parses to a mapping (an empty document
\* parses to the empty mapping)
SourceValid(l) ==
    files[l].status = "present" /\ files[l].doc.kind \in {"map", "null"}

SourceTree(l) == IF files[l].doc.kind = "map" THEN files[l].doc ELSE EmptyTree

\* index of the first valid candidate, 0 if there is none
FirstValid(cands) ==
    IF \E i \in 1..Len(cands) : SourceValid(cands[i])
    THEN CHOOSE i \in 1..Len(cands) :
            SourceValid(cands[i]) /\ \A j \in 1..(i - 1) : ~SourceValid(cands[j])
    ELSE 0

\* the codes a call touched on disk
IoCodes(io) == {io[i][2] : i \in 1..Len(io)}

Reads(io) == {io[i][2] : i \in {j \in 1..Len(io) : io[j][1] = "read"}}

\* C1: a load that runs the fallback loop returns the tree of the first
\* candidate of [r] ++ chain whose source exists and parses to a mapping, and
\* consults no candidate after it
C1_FallbackOrder ==
    (Returned /\ last.via \in {"read", "unchanged", "exhausted"}) =>
        LET cands == <<last.lang>> \o fallback_languages
            k == FirstValid(cands)
        IN  IF k = 0 THEN last.tree = EmptyTree
            ELSE /\ last.tree = SourceTree(cands[k])
                 /\ IoCodes(last.io) \subseteq {cands[j] : j \in 1..k}

\* C2: when the returned tree came from a fallback candidate other than the
\* requested code, the cache holds that tree under the requested code
C2_CachedUnderRequested ==
    (Returned /\ last.via \in {"read", "unchanged"} /\ last.src # last.lang) =>
        /\ last.lang \in DOMAIN cache
        /\ cache[last.lang] = last.tree

\* an entry of key whose age has reached the TTL
AgedOut(key) ==
    has_cache /\ key \in DOMAIN cache /\ now - timestamps[key] >= ttl

\* C3: an entry inserted at t under TTL d is absent for every read at
\* now >= t + d: no call is served from such an entry
C3_TtlExpiry ==
    [][\A key \in Langs :
          AgedOut(key) =>
             ~(/\ last'.op \in LoadOps
               /\ \/ last'.via = "cache" /\ last'.lang = key
                  \/ last'.via = "unchanged" /\ last'.src = key)]_vars

\* C4: of two consecutive get calls for the same language and key, with
\* nothing in between, the second returns the same result and reads no source
C4_CacheHitEquivalence ==
    [][(/\ last.op \in GetOps /\ last.raised = "none"
        /\ last'.op \in GetOps /\ ~last'.running
        /\ last'.lang = last.lang /\ last'.path = last.path
        /\ last'.default = last.default /\ last'.ph = last.ph)
       => (/\ last'.raised = "none"
           /\ last'.text = last.text
           /\ Reads(last'.io) = {})]_vars

\* a non-forced call for r that is not the blocking wrapper inside a
\* running event loop
PlainCallFor(c, r) ==
    c.op \in LoadOps /\ c.lang = r /\ ~c.force /\ ~c.running

C6_NoFailureEscapes ==
    last.op \in {"load_messages", "get_async"} => last.raised = "none"

\* C7: the blocking wrapper get() never raises, in every calling context
C7_GetNeverRaises ==
    last.op = "get" => last.raised = "none"

\* ------------------------------------------------------------------------
\* Lookups (get / get_async) over bounded sets of trees, key paths, defaults
\* and placeholder maps: SpecGet starts with en.yaml holding any tree of
\* GetTrees and applies get and get_async to it
\* ------------------------------------------------------------------------
\* templates as tokens: a literal text without braces, or a named field
Lit(s) == [lit |-> TRUE, s |-> s]

Field(name) == [lit |-> FALSE, s |-> name]

TokenTemplates ==
    {<<Lit(<<"H">>), Field(<<"n">>)>>, <<Field(<<"n">>), Field(<<"m">>)>>,
     <<Lit(<<"H">>)>>, <<>>}

\* the Python string of a token template
RECURSIVE TextOf(_)
TextOf(tk) ==
    IF tk = <<>> THEN <<>>
    ELSE (IF Head(tk).lit THEN Head(tk).s ELSE <<"{">> \o Head(tk).s \o <<"}">>)
         \o TextOf(Tail(tk))

\* braces that are escaped, unbalanced or name no keyword argument
OddTemplates ==
    {<<"{", "{", "n", "}", "}">>, <<"{">>, <<"}">>, <<"{", "}">>, <<"{", "0", "}">>,
     <<"{", "n">>}

Templates == {TextOf(tk) : tk \in TokenTemplates} \cup OddTemplates

Leaves == {StrNode(t) : t \in Templates} \cup {OtherNode, FalsyNode, NullNode}

GetTrees ==
    {MapNode([a |-> x]) :
        x \in Leaves \cup {MapNode([b |-> y]) : y \in Leaves} \cup {EmptyTree}}

AllPaths ==
    {PathStr(<<"a">>), PathStr(<<"a", ".", "b">>), PathStr(<<"a", ".", "b", ".", "c">>),
     PathStr(<<"b">>), PathStr(<<>>), PathStr(<<"a", ".">>),
     PathList(<<>>), PathList(<< <<"a">> >>), PathList(<< <<"a">>, <<"b">> >>)}

AllDefaults == {<<"X">>, <<>>}

AllPlaceholders ==
    {PhNone, PhN, [x \in {<<"n">>, <<"m">>} |-> IF x = <<"n">> THEN <<"A">> ELSE <<"B">>]}

InitGet ==
    /\ fallback_languages = <<"en", "de">>
    /\ default_language = "en"
    /\ cache_ttl_minutes = DefaultCacheTtl
    /\ has_cache = FALSE
    /\ cache = EmptyFn
    /\ timestamps = EmptyFn
    /\ ttl = 0
    /\ file_watchers = EmptyFn
    /\ \E t \in GetTrees :
          files = [l \in Langs |->
                     IF l = "en" THEN [status |-> "present", mtime |-> 0, doc |-> t]
                     ELSE AbsentFile]
    /\ now = 0
    /\ writes = 0
    /\ last = NoCall
    /\ InitSettings
    /\ colorama_available = TRUE
    /\ InitAux

NextGet ==
    \/ \E p \in AllPaths, d \in AllDefaults, ph \in AllPlaceholders :
          GetAsync("en", p, d, ph)
    \/ \E p \in AllPaths, d \in AllDefaults, ph \in AllPlaceholders,
          running \in BOOLEAN :
          Get("en", p, d, ph, running)

SpecGet == InitGet /\ [][NextGet]_vars

\* the value k segments down the tree, following only mappings and keys that
\* are present
Missing == [kind |-> "missing", val |-> NoVal]

RECURSIVE Reached(_, _, _)
Reached(tree, segs, k) ==
    IF k = 0 THEN tree
    ELSE LET p == Reached(tree, segs, k - 1)
         IN  IF p.kind = "map" /\ Len(segs[k]) = 1 /\ segs[k][1] \in DOMAIN p.val
             THEN p.val[segs[k][1]]
             ELSE Missing

\* the value at the full key path of the last call, in the tree it resolved
LeafOfLast ==
    LET segs == ParsePath(last.path) IN Reached(last.tree, segs, Len(segs))

\* C8: get / get_async return the default when a segment is absent, an
\* intermediate value is not a mapping or the value reached is not a string,
\* and the formatted leaf string otherwise
C8_DefaultOnMiss ==
    (last.op \in GetOps /\ last.raised = "none") =>
        last.text = IF LeafOfLast.kind = "str"
                    THEN FormatOrRaw(LeafOfLast.val, last.ph)
                    ELSE last.default

\* reached: the key path a.b leads through the string a, the default is
\* returned
C8_Witness ==
    /\ last.op \in GetOps /\ last.raised = "none"
    /\ Len(ParsePath(last.path)) = 2
    /\ Reached(last.tree, ParsePath(last.path), 1).kind = "str"
    /\ last.default = <<"X">>
    /\ last.text = last.default

\* a token template with every field replaced by its value
RECURSIVE Filled(_, _)
Filled(tk, ph) ==
    IF tk = <<>> THEN <<>>
    ELSE (IF Head(tk).lit THEN Head(tk).s ELSE ph[Head(tk).s]) \o Filled(Tail(tk), ph)

FieldNames(tk) == {tk[i].s : i \in {j \in 1..Len(tk) : ~tk[j].lit}}

\* C9: a leaf template whose named placeholders are all supplied is returned
\* with each name replaced by its value; if a referenced name is missing the
\* template itself is returned, by get and by get_async
C9_Placeholders ==
    \A tk \in TokenTemplates :
        (/\ last.op \in GetOps /\ last.raised = "none"
         /\ LeafOfLast.kind = "str" /\ LeafOfLast.val = TextOf(tk))
        => last.text = IF FieldNames(tk) \subseteq DOMAIN last.ph
                       THEN Filled(tk, last.ph)
                       ELSE TextOf(tk)

\* reached: the template {n}{m} with only n supplied is returned unformatted
C9_Witness ==
    /\ last.op = "get" /\ last.raised = "none"
    /\ LeafOfLast.kind = "str"
    /\ LeafOfLast.val = <<"{", "n", "}", "{", "m", "}">>
    /\ DOMAIN last.ph = {<<"n">>}
    /\ last.text = LeafOfLast.val
    /\ last.text # last.default

\* the source of l is a valid mapping with a string at the key path
HasString(l, path) ==
    /\ SourceValid(l)
    /\ LET segs == ParsePath(path)
       IN  Reached(SourceTree(l), segs, Len(segs)).kind = "str"

\* the requested source is a valid mapping without a string at the key path
\* of the last get, and a language of the fallback chain has one
IncompletePrimary ==
    /\ last.op \in GetOps /\ last.raised = "none"
    /\ SourceValid(last.lang)
    /\ ~HasString(last.lang, last.path)
    /\ \E i \in 1..Len(fallback_languages) :
          HasString(fallback_languages[i], last.path)

\* C10 as claimed: for an incomplete primary source get returns the string
\* of a fallback language that has the key path
C10_KeyLevelFallback ==
    IncompletePrimary =>
        \E i \in 1..Len(fallback_languages) :
            /\ HasString(fallback_languages[i], last.path)
            /\ LET segs == ParsePath(last.path)
                   c == fallback_languages[i]
               IN  last.text =
                      FormatOrRaw(Reached(SourceTree(c), segs, Len(segs)).val, last.ph)

\* C10 amended: when the tree a get resolves is read from the requested
\* language's own valid source and lacks the key path, the default is
\* returned although a fallback language has the key path
C10_DefaultForIncompletePrimary ==
    (IncompletePrimary /\ last.via = "read" /\ last.src = last.lang) =>
        last.text = last.default

\* reached: es.yaml is valid without a.b, en.yaml has a.b, get("es", "a.b")
\* read es.yaml and returned the default
C10_Witness ==
    /\ IncompletePrimary
    /\ last.lang = "es" /\ last.via = "read" /\ last.src = "es"
    /\ HasString("en", last.path)
    /\ last.text = <<"X">>

\* ------------------------------------------------------------------------
\* What a resolution writes, and which entries it may serve
\* ------------------------------------------------------------------------
\* the step is a call that ran load_messages to its end
Resolved == last'.op \in LoadOps /\ last'.via \in {"cache", "unchanged", "read", "exhausted"}

\* the entry of k is the same before and after the step
EntryKept(k) ==
    /\ (k \in DOMAIN cache') = (k \in DOMAIN cache)
    /\ k \in DOMAIN cache => cache'[k] = cache[k] /\ timestamps'[k] = timestamps[k]

\* the entry of k was there, older than the TTL, and is gone after the step
EntryExpired(k) ==
    /\ k \in DOMAIN cache /\ k \notin DOMAIN cache'
    /\ now - timestamps[k] > ttl

\* no entry is created or overwritten under a key other than r
NoForeignWrite(r) ==
    \A k \in Langs \ {r} :
        k \in DOMAIN cache' =>
           /\ k \in DOMAIN cache
           /\ cache'[k] = cache[k] /\ timestamps'[k] = timestamps[k]

\* the candidate that was read is recorded, with its modification time,
\* under its own code only, and the tree is stored under r
ReadRecorded(r) ==
    /\ r \in DOMAIN cache' /\ cache'[r] = last'.tree /\ timestamps'[r] = now
    /\ file_watchers' = FnSet(file_watchers, last'.src,
                              FileAt(translation_path, last'.src).mtime)

\* C17: load_messages(r) writes no entry under another key; a candidate
\* that is read is stored under r and its modification time under its own
\* code, every other entry and recorded time being left unchanged; exhaustion
\* changes no recorded modification time
C17_WriteSet ==
    [][Resolved =>
          /\ NoForeignWrite(last'.lang)
          /\ last'.via = "read" =>
                /\ ReadRecorded(last'.lang)
                /\ \A k \in Langs \ {last'.lang} : EntryKept(k)
          /\ last'.via = "exhausted" => file_watchers' = file_watchers]_vars

\* C17 (amended): as C17, except that the entry of an earlier candidate
\* that has outlived the TTL may be removed by the cache lookup of line 353
C17_WriteSetUpToExpiry ==
    [][Resolved =>
          /\ NoForeignWrite(last'.lang)
          /\ last'.via = "read" =>
                /\ ReadRecorded(last'.lang)
                /\ \A k \in Langs \ {last'.lang} : EntryKept(k) \/ EntryExpired(k)
          /\ last'.via = "exhausted" => file_watchers' = file_watchers]_vars

\* reached: es was resolved by reading the fallback de; the tree is stored
\* under es, the modification time under de, and the entry of en (stored
\* earlier) is still there
C17_Witness ==
    /\ last.op = "load_messages" /\ last.via = "read"
    /\ last.lang = "es" /\ last.src = "de"
    /\ "es" \in DOMAIN cache /\ cache["es"] = last.tree
    /\ "de" \in DOMAIN file_watchers /\ "es" \notin DOMAIN file_watchers
    /\ "en" \in DOMAIN cache /\ timestamps["en"] < timestamps["es"]

\* C19: a non-forced load_messages(r) that finds an entry of r younger
\* than the TTL returns it without any source-existence check, stat or read
C19_StepOneHit ==
    [][\A r \in Langs :
          (/\ has_cache /\ r \in DOMAIN cache /\ now - timestamps[r] < ttl
           /\ last'.op = "load_messages" /\ last'.lang = r /\ ~last'.force)
             => /\ last'.raised = "none" /\ last'.via = "cache"
                /\ last'.tree = cache[r]
                /\ last'.io = <<>>]_vars

\* reached: en was served from its entry although en.yaml has been deleted
C19_Witness ==
    /\ last.op = "load_messages" /\ ~last.force /\ last.lang = "en"
    /\ last.via = "cache" /\ last.tree = DocEn /\ last.io = <<>>
    /\ files["en"].status = "absent"

\* C20: a forced load_messages(r) returns no tree taken from the cache: it
\* returns the tree read from the first valid candidate, or the empty tree
\* on exhaustion, and the entry of r is that tree
C20_ForcedReload ==
    (last.op = "load_messages" /\ last.force /\ last.raised = "none") =>
        LET cands == <<last.lang>> \o fallback_languages
            k == FirstValid(cands)
        IN  /\ last.via \in {"read", "exhausted"}
            /\ last.lang \in DOMAIN cache /\ cache[last.lang] = last.tree
            /\ IF k = 0 THEN last.via = "exhausted" /\ last.tree = EmptyTree
               ELSE /\ last.via = "read" /\ last.src = cands[k]
                    /\ last.tree = SourceTree(cands[k])

\* ------------------------------------------------------------------------
\* Resolutions with the record of the codes that were requested
\* ------------------------------------------------------------------------
\* await TranslationHandler.load_messages(lang_code, force_reload), the
\* requested code being recorded
Request(lang_code, force_reload) ==
    LET r == load_messages(lang_code, force_reload)
    IN  /\ Commit(r)
        /\ last' = CallOf("load_messages", lang_code, force_reload, r)
        /\ requested' = requested \cup {lang_code}
        /\ UNCHANGED <<fallback_languages, default_language, cache_ttl_minutes,
                       files, now, writes, cfgaux, tasks, locked, dir_status,
                       stored_ttl, ver>>

NextHist ==
    \/ \E l \in Langs, force \in BOOLEAN : Request(l, force)
    \/ \E t \in Ttls \cup {NoneTtl} :
          Settings(NonePath, NoneChain, NoneLang, t, Omitted, Omitted, Omitted)
    \/ \E l \in {"en", NoneLang} : ClearCache(l)
    \/ Tick
    \/ \E l \in {"es", "en"} : WriteFile(l, DocNew)
    \/ DeleteFile("en")

SpecHist == Init /\ [][NextHist]_vars

\* C18: the unchanged-source shortcut serves the cached tree of a
\* candidate c only if an earlier load_messages call had c as its
\* requested language
C18_ShortcutOnlyForRequested ==
    [][(last'.op = "load_messages" /\ last'.via = "unchanged")
          => last'.src \in requested]_vars

\* reached: es was served by the shortcut from the entry of en, which an
\* earlier call had requested
C18_Witness ==
    /\ last.op = "load_messages" /\ last.via = "unchanged"
    /\ last.lang = "es" /\ last.src = "en"
    /\ "en" \in requested /\ "en" \in DOMAIN cache /\ last.tree = cache["en"]

\* ------------------------------------------------------------------------
\* Coroutines: load_messages and clear_cache between their awaits
\* ------------------------------------------------------------------------
\* A coroutine runs without interruption from one await to the next; at an
\* await (lines 336, 353, 367, 391, 703) the event loop may run another
\* coroutine. The body of a cache operation (lines 192-217) has no await.
\* Each body is taken in two steps, one per map it touches.
TaskIds == {1, 2}

\* locals of a coroutine: lang_code, force_reload, the candidate tuple of
\* line 342 and the index in it, the translation_path of file_path (line
\* 343), mtime (351), data (359), the value returned; paths is the set of
\* translation_path values the call built a file_path from; stats is what
\* get_stats returned; second: validate_translations is at its second load
IdleTask ==
    [op |-> "none", pc |-> "idle", at |-> "none", lang |-> NoneLang, force |-> FALSE,
     cands |-> <<>>, i |-> 0, path |-> NonePath, mtime |-> 0, data |-> NoTree,
     ret |-> NoTree, via |-> "none", paths |-> {}, second |-> FALSE,
     stats |-> [entries |-> 0, stamps |-> 0, languages |-> {}]]

InitTasks ==
    /\ fallback_languages = <<"en", "de">>
    /\ default_language = "en"
    /\ cache_ttl_minutes = DefaultCacheTtl
    /\ has_cache = FALSE
    /\ cache = EmptyFn
    /\ timestamps = EmptyFn
    /\ ttl = 0
    /\ file_watchers = EmptyFn
    /\ files = [l \in Langs |->
                  CASE l = "en" -> [status |-> "present", mtime |-> 0, doc |-> DocEn]
                    [] l = "de" -> [status |-> "present", mtime |-> 0, doc |-> DocDe]
                    [] OTHER -> AbsentFile]
    /\ now = 0
    /\ writes = 0
    /\ last = NoCall
    /\ InitSettings
    /\ colorama_available = TRUE
    /\ requested = {}
    /\ tasks = [t \in TaskIds |-> IdleTask]
    /\ locked = FALSE
    /\ dir_status = "present"
    /\ stored_ttl = EmptyFn
    /\ InitVer

\* the coroutine is inside the body of a cache operation
Inside(t) == tasks[t].pc = "inside"

\* the event loop runs t: no other coroutine is between two awaits
CanRun_Preemptive(t) == TRUE

CanRun(t) == \A u \in TaskIds \ {t} : ~Inside(u)

\* a new call can be made: no coroutine is between two awaits
Quiet == \A t \in TaskIds : CanRun(t) /\ ~Inside(t)

\* the call ended with the value ret
Done(rec, ret, via) ==
    [rec EXCEPT !.pc = "idle", !.at = "none", !.ret = ret, !.via = via]

\* the coroutine stops at the await of a cache operation
AwaitAt(rec, at) == [rec EXCEPT !.pc = "await", !.at = at]

RECURSIVE LoopFrom(_, _)
\* lines 358-385 for candidate i: the file is opened under the file_path
\* built before (rec.path); on failure the loop goes on
ReadFrom(rec, i) ==
    LET code == rec.cands[i]
        f == FileAt(rec.path, code)
        data == LoadedOrEmpty(f.doc)
    IN  IF f.status # "present" \/ f.doc.kind = "yamlerror" \/ ~IsDict(data)
        THEN LoopFrom(rec, i + 1)
        ELSE AwaitAt([rec EXCEPT !.i = i, !.data = data], "set")

\* the for loop of line 342 from candidate i on, up to the next await
LoopFrom(rec, i) ==
    IF i > Len(rec.cands)
    THEN AwaitAt([rec EXCEPT !.i = i, !.data = EmptyTree], "setempty")
    ELSE LET code == rec.cands[i]
             f == FileAt(translation_path, code)
             rec1 == [rec EXCEPT !.i = i, !.path = translation_path,
                                 !.paths = rec.paths \cup {translation_path},
                                 !.mtime = f.mtime]
         IN  IF PathExists(f) = "OSError" THEN Done(rec1, NoTree, "raise")
             ELSE IF PathExists(f) = "False" THEN LoopFrom(rec1, i + 1)
             ELSE IF Unchanged(file_watchers, code, f.mtime, rec.force)
             THEN AwaitAt(rec1, "get2")
             ELSE ReadFrom(rec1, i)

\* the tuple of line 342 is built when the loop is entered
EnterLoop(rec) ==
    LoopFrom([rec EXCEPT !.cands = <<rec.lang>> \o fallback_languages], 1)

\* TranslationHandler._ensure_cache as a step
EnsureCache ==
    /\ has_cache' = TRUE
    /\ ttl' = IF has_cache THEN ttl ELSE cache_ttl_minutes

TaskFrame ==
    /\ last' = NoCall
    /\ UNCHANGED <<fallback_languages, default_language, cache_ttl_minutes,
                   files, now, writes, cfgaux, requested, dir_status,
                   stored_ttl, ver>>

\* load_messages(lang_code, force_reload) is called: lines 332-336, and the
\* loop up to its first await when the reload is forced
StartLoad(t, lang_code, force_reload) ==
    LET rec == [IdleTask EXCEPT !.op = "load", !.lang = lang_code,
                                !.force = force_reload]
    IN  /\ Quiet /\ tasks[t].pc = "idle"
        /\ EnsureCache
        /\ tasks' = [tasks EXCEPT ![t] = IF force_reload THEN EnterLoop(rec)
                                         ELSE AwaitAt(rec, "get1")]
        /\ UNCHANGED <<cache, timestamps, file_watchers, locked>>
        /\ TaskFrame

\* clear_cache(lang_code) is called: lines 702-703
StartClear(t, lang_code) ==
    /\ Quiet /\ tasks[t].pc = "idle"
    /\ EnsureCache
    /\ tasks' = [tasks EXCEPT ![t] =
                    AwaitAt([IdleTask EXCEPT !.op = "clear", !.lang = lang_code], "clear")]
    /\ UNCHANGED <<cache, timestamps, file_watchers, locked>>
    /\ TaskFrame

\* get_cache_stats(): get_stats reads both maps, without the lock
GetStats(t) ==
    /\ \A u \in TaskIds : CanRun(u)
    /\ tasks[t].pc = "idle"
    /\ EnsureCache
    /\ tasks' = [tasks EXCEPT ![t] =
                    [IdleTask EXCEPT !.op = "get_stats",
                                     !.stats = [entries |-> Cardinality(DOMAIN cache),
                                                stamps |-> Cardinality(DOMAIN timestamps),
                                                languages |-> DOMAIN cache]]]
    /\ UNCHANGED <<cache, timestamps, file_watchers, locked>>
    /\ TaskFrame

\* the key of the cache operation the coroutine is at
KeyOf(rec) == IF rec.at = "get2" THEN rec.cands[rec.i] ELSE rec.lang

\* the slip of storing an empty tree whatever was read
StoredTree_Empty(rec) == EmptyTree

\* the value handed to cache.set (lines 367 and 391)
StoredTree(rec) == rec.data

\* the slip of taking clear(None) for the clear of one key
ClearsOne_Always(key) == TRUE

\* if key: (line 212)
ClearsOne(key) == key # NoneLang /\ key # ""

\* the lock is acquired (lines 192, 205, 211) and the body does its work on
\* _cache: line 197, 206, 213 or 216
Enter(t) ==
    LET rec == tasks[t]
        key == KeyOf(rec)
    IN  /\ CanRun(t) /\ rec.pc = "await" /\ ~locked
        /\ locked' = TRUE
        /\ cache' =
              CASE rec.at \in {"get1", "get2"} ->
                     IF key \in DOMAIN cache /\ now - timestamps[key] > ttl
                     THEN FnDel(cache, key) ELSE cache
                [] rec.at \in {"set", "setempty"} -> FnSet(cache, key, StoredTree(rec))
                [] OTHER -> IF ClearsOne(key) THEN FnDel(cache, key) ELSE EmptyFn
        /\ tasks' = [tasks EXCEPT ![t].pc = "inside"]
        /\ UNCHANGED <<has_cache, ttl, timestamps, file_watchers>>
        /\ TaskFrame

\* the slip of clearing a key in _cache only
StampsAfter_KeepCleared(rec, key) ==
    CASE rec.at \in {"get1", "get2"} ->
           IF key \in DOMAIN timestamps /\ key \notin DOMAIN cache
           THEN FnDel(timestamps, key) ELSE timestamps
      [] rec.at \in {"set", "setempty"} -> FnSet(timestamps, key, now)
      [] OTHER -> IF ClearsOne(key) THEN timestamps ELSE EmptyFn

\* _timestamps after the second statement of the body of get, set or clear
\* (line 198, 207, 214 or 217), the first having been done on _cache
StampsAfter(rec, key) ==
    CASE rec.at \in {"get1", "get2"} ->
           IF key \in DOMAIN timestamps /\ key \notin DOMAIN cache
           THEN FnDel(timestamps, key) ELSE timestamps
      [] rec.at \in {"set", "setempty"} -> FnSet(timestamps, key, now)
      [] OTHER -> IF ClearsOne(key) THEN FnDel(timestamps, key) ELSE EmptyFn

\* the slip of leaving the body with the lock held
LockAfterBody_Held == TRUE

\* the lock when `async with self._lock` is left (lines 192, 205, 211)
LockAfterBody == FALSE

\* a load_messages call has ended: validate_translations goes on from its
\* forced load of lang_code (line 655) to the load of the default language
\* (lines 657-664), every other call ends with it
Resume(rec) ==
    IF /\ rec.op = "validate" /\ rec.pc = "idle" /\ ~rec.second
       /\ rec.via # "raise" /\ Truthy(rec.ret) /\ rec.lang # default_language
    THEN AwaitAt([IdleTask EXCEPT !.op = "validate", !.lang = default_language,
                                  !.second = TRUE], "get1")
    ELSE rec

\* the body does its work on _timestamps (line 198, 207, 214 or 217), the
\* lock is released and the coroutine runs on to its next await or its end
Leave(t) ==
    LET rec == tasks[t]
        key == KeyOf(rec)
        cached == IF key \in DOMAIN cache THEN cache[key] ELSE NoTree
    IN  /\ CanRun(t) /\ rec.pc = "inside"
        /\ locked' = LockAfterBody
        /\ timestamps' = StampsAfter(rec, key)
        /\ file_watchers' =
              CASE rec.at = "set" -> FnSet(file_watchers, rec.cands[rec.i], rec.mtime)
                [] rec.at = "clear" ->
                     IF ClearsOne(key) THEN FnDel(file_watchers, key) ELSE EmptyFn
                [] OTHER -> file_watchers
        /\ tasks' = [tasks EXCEPT ![t] = Resume(
                CASE rec.at = "get1" ->
                       IF CacheHit(cached) THEN Done(rec, cached, "cache")
                       ELSE EnterLoop(rec)
                  [] rec.at = "get2" ->
                       IF Truthy(cached) THEN Done(rec, cached, "unchanged")
                       ELSE ReadFrom(rec, rec.i)
                  [] rec.at = "set" -> Done(rec, rec.data, "read")
                  [] rec.at = "setempty" -> Done(rec, EmptyTree, "exhausted")
                  [] OTHER -> Done(rec, NoTree, "none"))]
        /\ UNCHANGED <<has_cache, ttl, cache>>
        /\ TaskFrame

\* calls and changes of the sources happen between the coroutines' steps;
\* settings() is called without cache_ttl, so the cache object the
\* coroutines hold stays the cache of the handler
NextTasks ==
    \/ \E t \in TaskIds, l \in {"es", "en"}, force \in BOOLEAN : StartLoad(t, l, force)
    \/ \E t \in TaskIds, l \in {"es", NoneLang} : StartClear(t, l)
    \/ \E t \in TaskIds : GetStats(t)
    \/ \E t \in TaskIds : Enter(t)
    \/ \E t \in TaskIds : Leave(t)
    \/ Quiet /\ Settings(AltPath, <<"de">>, NoneLang, NoneTtl, Omitted, Omitted, Omitted)
    \/ Quiet /\ ChmodFile("en", "unreadable")

SpecTasks == InitTasks /\ [][NextTasks]_vars

\* C14: at most one coroutine is inside the body of a cache operation, the
\* lock is held exactly then, and no get_stats call saw one map updated
\* without the other
C14_CacheMutualExclusion ==
    /\ Cardinality({t \in TaskIds : Inside(t)}) <= 1
    /\ locked = (\E t \in TaskIds : Inside(t))
    /\ \A t \in TaskIds :
          tasks[t].op = "get_stats" => tasks[t].stats.entries = tasks[t].stats.stamps

\* reached: a coroutine is inside set with _cache updated and _timestamps
\* not yet, while another waits at a cache operation for another language
C14_Witness ==
    \E t, u \in TaskIds :
        /\ Inside(t) /\ tasks[t].at = "set"
        /\ DOMAIN cache # DOMAIN timestamps
        /\ tasks[u].pc = "await" /\ tasks[u].lang # tasks[t].lang

\* the coroutine is at the await of a cache.set
AtSet(rec) == rec.at \in {"set", "setempty"}

\* the whole tree of the source the coroutine read, {} after exhaustion
TreeRead(rec) ==
    IF rec.at = "setempty" THEN EmptyTree
    ELSE LoadedOrEmpty(FileAt(rec.path, rec.cands[rec.i]).doc)

\* C15: concurrent load_messages calls all run to their end (no coroutine
\* waits for a lock that is held across an await); an entry only takes the
\* whole tree that the coroutine doing the cache.set has read, and when a
\* cache.set completes the entry is that coroutine's tree: the last set wins
C15_LastWriteWins ==
    [][/\ Quiet => ~locked
       /\ \A r \in Langs :
             (r \in DOMAIN cache' /\ (r \notin DOMAIN cache \/ cache'[r] # cache[r])) =>
                \E t \in TaskIds :
                    /\ tasks[t].pc = "await" /\ AtSet(tasks[t]) /\ tasks[t].lang = r
                    /\ tasks'[t].pc = "inside"
                    /\ cache'[r] = TreeRead(tasks[t])
       /\ \A t \in TaskIds :
             (Inside(t) /\ AtSet(tasks[t]) /\ tasks'[t].pc = "idle") =>
                /\ cache'[tasks[t].lang] = TreeRead(tasks[t])
                /\ timestamps'[tasks[t].lang] = now
                /\ tasks'[t].ret = cache'[tasks[t].lang]]_vars

\* reached: two calls for es both missed the cache and both read a source;
\* the set of one has completed, the other is still at the await of its set
C15_Witness ==
    \E t, u \in TaskIds :
        /\ tasks[t].op = "load" /\ tasks[t].pc = "idle" /\ tasks[t].via = "read"
        /\ tasks[t].lang = "es" /\ ~tasks[t].force
        /\ tasks[u].op = "load" /\ tasks[u].pc = "await" /\ tasks[u].at = "set"
        /\ tasks[u].lang = "es" /\ ~tasks[u].force
        /\ "es" \in DOMAIN cache /\ cache["es"] = tasks[t].ret

\* C16: every file_path of one load_messages call is built from the same
\* translation_path, the one in force when its candidate tuple was built
C16_ConfigurationAtomicity ==
    \A t \in TaskIds : tasks[t].op = "load" => Cardinality(tasks[t].paths) <= 1

\* ------------------------------------------------------------------------
\* Reconfiguration: settings() and configure() over all of their options
\* ------------------------------------------------------------------------
CfgPaths == {NonePath, AltPath}

CfgChains == {NoneChain, <<"de">>}

CfgLangs == {NoneLang, "de"}

CfgTtls == {NoneTtl, 1}

\* the logging options of a call: <<logging, colored, log_level>>
CfgLogOptions ==
    {<<Omitted, Omitted, Omitted>>, <<"False", Omitted, Omitted>>,
     <<"False", "False", "debug">>}

\* colorama may or may not be installed (lines 26-31)
InitCfg ==
    /\ fallback_languages = <<"en", "de">>
    /\ default_language = "en"
    /\ cache_ttl_minutes = DefaultCacheTtl
    /\ has_cache = FALSE
    /\ cache = EmptyFn
    /\ timestamps = EmptyFn
    /\ ttl = 0
    /\ file_watchers = EmptyFn
    /\ files = [l \in Langs |->
                  CASE l = "en" -> [status |-> "present", mtime |-> 0, doc |-> DocEn]
                    [] l = "de" -> [status |-> "present", mtime |-> 0, doc |-> DocDe]
                    [] OTHER -> AbsentFile]
    /\ now = 0
    /\ writes = 0
    /\ last = NoCall
    /\ InitSettings
    /\ colorama_available \in BOOLEAN
    /\ InitAux

\* settings() with any options; configure() called directly with a TTL and
\* the logging options; load_messages fills the cache
NextCfg ==
    \/ \E p \in CfgPaths, fl \in CfgChains, dl \in CfgLangs, t \in CfgTtls,
          o \in CfgLogOptions :
          Settings(p, fl, dl, t, o[1], o[2], o[3])
    \/ \E t \in CfgTtls, o \in CfgLogOptions :
          Configure(NonePath, NoneChain, NoneLang, t, o[1], o[2], o[3])
    \/ \E l \in {"es", "en"} : LoadMessages(l, FALSE)

SpecCfg == InitCfg /\ [][NextCfg]_vars

\* a supplied option has the supplied value (a log level in upper case), an
\* option left out keeps its value
OptionsFrame(p, fl, dl, t, lg, col, lv) ==
    /\ translation_path' = IF p # NonePath THEN p ELSE translation_path
    /\ fallback_languages' = IF fl # NoneChain THEN fl ELSE fallback_languages
    /\ default_language' = IF dl # NoneLang THEN dl ELSE default_language
    /\ cache_ttl_minutes' = IF t # NoneTtl THEN t ELSE cache_ttl_minutes
    /\ logging_enabled' = IF lg # Omitted THEN IsTrue(lg) ELSE logging_enabled
    /\ colored_logging' = IF col # Omitted THEN IsTrue(col) ELSE colored_logging
    /\ log_level' = IF lv # Omitted THEN Upper(lv) ELSE log_level

\* C11: after settings()/configure() every supplied option has the supplied
\* value and every option that was not supplied keeps its previous value
C11_ReconfigurationFrame ==
    [][\A p \in CfgPaths, fl \in CfgChains, dl \in CfgLangs, t \in CfgTtls,
          o \in CfgLogOptions :
          (\/ Settings(p, fl, dl, t, o[1], o[2], o[3])
           \/ Configure(p, fl, dl, t, o[1], o[2], o[3]))
             => OptionsFrame(p, fl, dl, t, o[1], o[2], o[3])]_vars

\* C12: settings() without cache_ttl, called while a cache exists, leaves
\* the entries, their timestamps, the TTL of the cache and the recorded
\* modification times unchanged, whatever other options it changes
C12_SettingsKeepsCache ==
    [][\A p \in CfgPaths, fl \in CfgChains, dl \in CfgLangs, o \in CfgLogOptions :
          (has_cache /\ Settings(p, fl, dl, NoneTtl, o[1], o[2], o[3]))
             => UNCHANGED <<cache, timestamps, ttl, file_watchers>>]_vars

\* reached: the source path was changed by settings() after en.yaml of the
\* default directory had been loaded, and the entry and the recorded
\* modification time are still there
C12_Witness ==
    /\ translation_path = AltPath
    /\ has_cache /\ "en" \in DOMAIN cache /\ cache["en"] = DocEn
    /\ "en" \in DOMAIN file_watchers

\* C13: settings() creates a new empty cache exactly when there is none or
\* a cache_ttl is supplied; otherwise the cache is kept and its TTL is the
\* configured TTL afterwards
C13_NewCacheOrTtlInPlace ==
    [][\A p \in CfgPaths, fl \in CfgChains, dl \in CfgLangs, t \in CfgTtls,
          o \in CfgLogOptions :
          Settings(p, fl, dl, t, o[1], o[2], o[3]) =>
             IF ~has_cache \/ t # NoneTtl
             THEN has_cache' /\ cache' = EmptyFn /\ timestamps' = EmptyFn
             ELSE /\ has_cache' /\ cache' = cache /\ timestamps' = timestamps
                  /\ ttl' = cache_ttl_minutes']_vars

\* ------------------------------------------------------------------------
\* Fallback chains with repeated codes
\* ------------------------------------------------------------------------
\* chains that contain the requested code, or a code twice
DupChains == {<<"es", "en">>, <<"en", "en", "de">>}

\* the documents es.yaml is written with
DupDocs == {OtherNode, DocNew, YamlErrorDoc}

NextDup ==
    \/ \E fl \in DupChains, t \in Ttls \cup {NoneTtl} :
          Settings(NonePath, fl, NoneLang, t, Omitted, Omitted, Omitted)
    \/ \E l \in RequestLangs, force \in BOOLEAN : LoadMessages(l, force)
    \/ Tick
    \/ \E doc \in DupDocs : WriteFile("es", doc)
    \/ ChmodFile("en", "unreadable")

SpecDup == Init /\ [][NextDup]_vars

\* a tuple without the occurrences of a code after its first
RECURSIVE Dedup(_)
Dedup(s) ==
    IF s = <<>> THEN <<>>
    ELSE LET r == Dedup(SubSeq(s, 1, Len(s) - 1))
             x == s[Len(s)]
         IN  IF \E i \in 1..Len(r) : r[i] = x THEN r ELSE Append(r, x)

\* the attempts to read code's source among a call's I/O
ReadCalls(io, code) == {i \in 1..Len(io) : io[i] = IoOf("read", code)}

\* C21: load_messages(r) returns the same tree (or raises the same error) and
\* leaves the same cache entries, timestamps and recorded modification times
\* as it would with the candidate list in which every occurrence of a code
\* after its first is removed
C21_DuplicatesHarmless ==
    [][\A l \in RequestLangs, force \in BOOLEAN :
          LoadMessages(l, force) =>
             LET d == load_from(Dedup(Candidates(l)), l, force)
             IN  /\ last'.raised = d.raised
                 /\ last'.tree = d.tree
                 /\ cache' = d.co.cache
                 /\ timestamps' = d.co.timestamps
                 /\ file_watchers' = d.fw]_vars

\* a call that tried to read the same candidate twice, found it invalid both
\* times and read a later candidate
C21_Witness ==
    /\ last.op = "load_messages" /\ last.via = "read"
    /\ Candidates(last.lang) # Dedup(Candidates(last.lang))
    /\ \E code \in Langs : Cardinality(ReadCalls(last.io, code)) >= 2

\* ------------------------------------------------------------------------
\* get_all_translations and get_available_languages
\* ------------------------------------------------------------------------
\* languages=None
NoneList == <<"None">>

\* the codes of Langs in the order sorted() gives
SortedLangs == <<"de", "en", "es">>

\* translation_path.exists() of line 624 (pathlib of CPython up to 3.13)
DirExists ==
    CASE translation_path # DefaultPath -> "True"
      [] dir_status = "staterr" -> "OSError"
      [] dir_status = "absent" -> "False"
      [] OTHER -> "True"

\* translation_path.glob("*.yaml") lists {code}.yaml
IsListed(code) == FileAt(translation_path, code).status # "absent"

\* get_available_languages, lines 624-633: the list returned, or the error
\* raised by exists()
get_available_languages ==
    IF DirExists = "OSError" THEN [raised |-> "OSError", langs |-> <<>>]
    ELSE IF DirExists = "False" THEN [raised |-> "none", langs |-> <<default_language>>]
    ELSE [raised |-> "none", langs |-> SelectSeq(SortedLangs, IsListed)]

\* "except Exception" of line 611 catches what get_async raises
Swallowed(raised) == raised # "none"

\* "if translation:" of line 609
Collected(translation) == translation # <<>>

\* the loop of lines 606-612 from language i on; acc = [co, fw, results]
RECURSIVE get_all_from(_, _, _, _)
get_all_from(languages, i, path, acc) ==
    IF i > Len(languages) THEN acc
    ELSE LET lang == languages[i]
             r == load_in([co |-> acc.co, fw |-> acc.fw], Candidates(lang), lang, FALSE)
             translation == Resolve(r.tree, path, <<>>, PhNone)
         IN  get_all_from(languages, i + 1, path,
                [co |-> r.co, fw |-> r.fw,
                 results |-> IF ~Swallowed(r.raised) /\ Collected(translation)
                             THEN FnSet(acc.results, lang, translation)
                             ELSE acc.results])

\* await TranslationHandler.get_all_translations(path, languages)
GetAllTranslations(path, languages) ==
    LET a == IF languages = NoneList THEN get_available_languages
             ELSE [raised |-> "none", langs |-> languages]
        b == get_all_from(a.langs, 1, path,
                          [co |-> ensure_cache, fw |-> file_watchers,
                           results |-> EmptyFn])
        c == [NoCall EXCEPT !.op = "get_all_translations", !.path = path]
    IN  /\ IF a.raised # "none"
           THEN /\ last' = [c EXCEPT !.raised = a.raised, !.via = "raise"]
                /\ UNCHANGED <<has_cache, cache, timestamps, ttl, file_watchers>>
           ELSE IF a.langs = <<>>
           THEN /\ last' = c
                /\ UNCHANGED <<has_cache, cache, timestamps, ttl, file_watchers>>
           ELSE /\ last' = [c EXCEPT !.results = b.results]
                /\ has_cache' = TRUE
                /\ cache' = b.co.cache
                /\ timestamps' = b.co.timestamps
                /\ ttl' = b.co.ttl
                /\ file_watchers' = b.fw
        /\ UNCHANGED <<fallback_languages, default_language, cache_ttl_minutes,
                       files, now, writes, cfgaux, aux>>

\* the directory of the sources, or a directory above it, changes: it is
\* removed, or loses its search permission
ChmodDir(status) ==
    /\ writes < MaxWrites
    /\ dir_status = "present"
    /\ dir_status' = status
    /\ writes' = writes + 1
    /\ last' = NoCall
    /\ UNCHANGED <<fallback_languages, default_language, cache_ttl_minutes,
                   has_cache, cache, timestamps, ttl, file_watchers, files, now,
                   cfgaux, requested, tasks, locked, stored_ttl, ver>>

\* the key paths and the language lists of the batch queries
BatchPaths == {PathStr(<<"d">>), PathStr(<<"a">>)}

BatchLists == {NoneList, <<"es", "en">>, <<"de", "es">>, <<"en">>}

NextAll ==
    \/ \E p \in BatchPaths, ls \in BatchLists : GetAllTranslations(p, ls)
    \/ \E l \in {"en", "de"} : LoadMessages(l, FALSE)
    \/ \E l \in Langs : \E doc \in WritesOf(l) : WriteFile(l, doc)
    \/ \E l \in Langs : DeleteFile(l)
    \/ \E st \in {"unreadable", "staterr"} : ChmodFile("en", st)
    \/ \E st \in {"absent", "staterr"} : ChmodDir(st)

SpecAll == Init /\ [][NextAll]_vars

\* the list a batch query goes through
Queried(languages) ==
    IF languages = NoneList THEN get_available_languages.langs ELSE languages

\* what get_async(L, path) called on its own returns: a string, or an error
Alone(L, path) ==
    LET r == load_messages(L, FALSE)
    IN  IF r.raised # "none" THEN [raised |-> r.raised, text |-> <<>>]
        ELSE [raised |-> "none", text |-> Resolve(r.tree, path, <<>>, PhNone)]

\* C22: get_all_translations never raises, and its result maps L to a string
\* exactly when L is in the queried list and get_async(L, path) on its own
\* gives a non-empty string, which is the mapped value
C22_BatchQuery ==
    [][\A p \in BatchPaths, ls \in BatchLists :
          GetAllTranslations(p, ls) =>
             /\ last'.raised = "none"
             /\ \A L \in Langs :
                   L \in DOMAIN last'.results <=>
                      /\ \E i \in 1..Len(Queried(ls)) : Queried(ls)[i] = L
                      /\ Alone(L, p).raised = "none"
                      /\ Alone(L, p).text # <<>>
             /\ \A L \in DOMAIN last'.results :
                   last'.results[L] = Alone(L, p).text]_vars

\* ------------------------------------------------------------------------
\* validate_translations
\* ------------------------------------------------------------------------
\* the characters of a key of a tree
KeyChars(k) == IF k = "" THEN <<>> ELSE <<k>>

\* f"{prefix}.{k}" if prefix else k (line 669): the test is the truth of
\* prefix, and the empty string is false
FullKey(prefix, k) ==
    IF prefix # <<>> THEN prefix \o <<".">> \o KeyChars(k) ELSE KeyChars(k)

\* get_all_keys of lines 666-674
RECURSIVE get_all_keys(_, _)
get_all_keys(d, prefix) ==
    UNION {IF d.val[k].kind = "map" THEN get_all_keys(d.val[k], FullKey(prefix, k))
           ELSE {FullKey(prefix, k)} : k \in DOMAIN d.val}

\* lines 657-692 with r1, what the forced load of lang_code gave (line 655),
\* and r2, what the load of the default language after it gives (line 663)
validation_report(lang_code, r1, r2) ==
    LET failed == [NoReport EXCEPT !.valid = FALSE, !.errors = 1]
        default_keys == get_all_keys(r2.tree, <<>>)
        current_keys == get_all_keys(r1.tree, <<>>)
        missing == default_keys \ current_keys
    IN  IF r1.raised # "none" THEN [report |-> failed, co |-> r1.co, fw |-> r1.fw]
        ELSE IF ~Truthy(r1.tree) THEN [report |-> failed, co |-> r1.co, fw |-> r1.fw]
        ELSE IF lang_code = default_language
        THEN [report |-> NoReport, co |-> r1.co, fw |-> r1.fw]
        ELSE IF r2.raised # "none" THEN [report |-> failed, co |-> r2.co, fw |-> r2.fw]
        ELSE [report |-> [valid |-> TRUE, errors |-> 0,
                          warnings |-> IF missing # {} THEN 1 ELSE 0,
                          missing |-> missing,
                          extra |-> current_keys \ default_keys],
              co |-> r2.co, fw |-> r2.fw]

\* validate_translations(lang_code), lines 646-692: the report, and the cache
\* and the file watchers afterwards
validate_translations(lang_code) ==
    CHOOSE v \in
        UNION {{validation_report(lang_code, r1, r2) :
                   r2 \in {load_in([co |-> r1.co, fw |-> r1.fw],
                                   Candidates(default_language), default_language,
                                   FALSE)}} :
               r1 \in {load_in(Entry, Candidates(lang_code), lang_code, TRUE)}} : TRUE

\* await TranslationHandler.validate_translations(lang_code)
ValidateTranslations(lang_code) ==
    \E v \in {validate_translations(lang_code)} :
        /\ has_cache' = TRUE
        /\ cache' = v.co.cache
        /\ timestamps' = v.co.timestamps
        /\ ttl' = v.co.ttl
        /\ file_watchers' = v.fw
        /\ last' = [NoCall EXCEPT !.op = "validate_translations", !.lang = lang_code,
                                  !.report = v.report]
        /\ UNCHANGED <<fallback_languages, default_language, cache_ttl_minutes,
                       files, now, writes, cfgaux, aux>>

\* a source with a mapping under the empty key
DocBlank == MapNode([k \in {""} |-> MapNode([b |-> StrNode(<<"B">>)])])

\* a source with more keys than en.yaml
DocMore ==
    MapNode([a |-> MapNode([b |-> StrNode(<<"B">>), e |-> MapNode([f |-> NullNode])]),
             d |-> StrNode(<<"D">>)])

ValDocs == {DocBlank, DocMore, EmptyTree}

NextVal ==
    \/ \E l \in Langs : ValidateTranslations(l)
    \/ LoadMessages("en", FALSE)
    \/ \E doc \in ValDocs : WriteFile("es", doc)
    \/ WriteFile("en", DocNew)
    \/ DeleteFile("de")
    \/ Settings(NonePath, NoneChain, "de", NoneTtl, Omitted, Omitted, Omitted)

SpecVal == Init /\ [][NextVal]_vars

\* the key paths of the leaves of a tree: the values that are not mappings
RECURSIVE LeafPaths(_, _)
LeafPaths(d, pre) ==
    UNION {IF d.val[k].kind = "map" THEN LeafPaths(d.val[k], Append(pre, k))
           ELSE {Append(pre, k)} : k \in DOMAIN d.val}

\* ".".join(segs)
RECURSIVE DotJoin(_)
DotJoin(segs) ==
    IF Len(segs) = 1 THEN KeyChars(segs[1])
    ELSE DotJoin(SubSeq(segs, 1, Len(segs) - 1)) \o <<".">> \o KeyChars(segs[Len(segs)])

\* the dot-joined leaf paths of a tree
Flattened(d) == {DotJoin(p) : p \in LeafPaths(d, <<>>)}

\* the tree load_messages(lang_code, force_reload=True) resolves
TargetTree(lang_code) == load_messages(lang_code, TRUE)

\* the tree of the default language the validator then compares with
DefaultTree(lang_code) ==
    LET r1 == TargetTree(lang_code)
    IN  load_in([co |-> r1.co, fw |-> r1.fw], Candidates(default_language),
                default_language, FALSE)

\* C23: for a target other than the default language whose resolved tree is
\* not empty, missing_keys is the set of dot-joined leaf paths of the default
\* tree that the target tree lacks, and extra_keys the reverse difference
C23_Validator ==
    [][\A l \in Langs :
          /\ ValidateTranslations(l)
          /\ l # default_language
          /\ TargetTree(l).raised = "none" /\ Truthy(TargetTree(l).tree)
          /\ DefaultTree(l).raised = "none"
          => /\ last'.report.missing =
                   Flattened(DefaultTree(l).tree) \ Flattened(TargetTree(l).tree)
             /\ last'.report.extra =
                   Flattened(TargetTree(l).tree) \ Flattened(DefaultTree(l).tree)]_vars

\* ------------------------------------------------------------------------
\* The operations of one TranslationCache, called directly
\* ------------------------------------------------------------------------
\* the keys of the calls: a language code, and the empty string
CacheKeys == {"", "en"}

\* the ttl_minutes a cache is constructed or updated with
CacheTtls == {1, 3}

CacheTrees == {DocEn, EmptyTree}

\* TranslationCache(ttl_minutes)
InitCache ==
    /\ fallback_languages = <<"en", "de">>
    /\ default_language = "en"
    /\ cache_ttl_minutes = DefaultCacheTtl
    /\ has_cache = TRUE
    /\ cache = EmptyFn
    /\ timestamps = EmptyFn
    /\ ttl \in CacheTtls
    /\ file_watchers = EmptyFn
    /\ files = [l \in Langs |-> AbsentFile]
    /\ now = 0
    /\ writes = 0
    /\ last = NoCall
    /\ InitSettings
    /\ colorama_available = TRUE
    /\ InitAux

\* the cache object
Co == [cache |-> cache, timestamps |-> timestamps, ttl |-> ttl]

CacheFrame ==
    UNCHANGED <<fallback_languages, default_language, cache_ttl_minutes, has_cache,
                file_watchers, files, now, writes, cfgaux, requested, tasks, locked,
                dir_status, ver>>

\* await cache.get(key)
CacheGet(key) ==
    LET r == cache_get(Co, key, now)
    IN  /\ cache' = r.co.cache
        /\ timestamps' = r.co.timestamps
        /\ stored_ttl' = [k \in DOMAIN r.co.cache |-> stored_ttl[k]]
        /\ last' = [NoCall EXCEPT !.op = "cache.get", !.lang = key, !.tree = r.value]
        /\ UNCHANGED ttl
        /\ CacheFrame

\* await cache.set(key, value)
CacheSet(key, value) ==
    LET co == cache_set(Co, key, value, now)
    IN  /\ cache' = co.cache
        /\ timestamps' = co.timestamps
        /\ stored_ttl' = FnSet(stored_ttl, key, ttl)
        /\ last' = [NoCall EXCEPT !.op = "cache.set", !.lang = key]
        /\ UNCHANGED ttl
        /\ CacheFrame

\* await cache.clear(key)
CacheClear(key) ==
    LET co == cache_clear(Co, key)
    IN  /\ cache' = co.cache
        /\ timestamps' = co.timestamps
        /\ stored_ttl' = [k \in DOMAIN co.cache |-> stored_ttl[k]]
        /\ last' = [NoCall EXCEPT !.op = "cache.clear", !.lang = key]
        /\ UNCHANGED ttl
        /\ CacheFrame

\* cache.update_ttl(ttl_minutes), lines 186-188
UpdateTtl(ttl_minutes) ==
    /\ ttl' = ttl_minutes
    /\ last' = [NoCall EXCEPT !.op = "cache.update_ttl"]
    /\ UNCHANGED <<cache, timestamps, stored_ttl>>
    /\ CacheFrame

NextCache ==
    \/ \E k \in CacheKeys : CacheGet(k)
    \/ \E k \in CacheKeys, v \in CacheTrees : CacheSet(k, v)
    \/ \E k \in CacheKeys \cup {NoneLang} : CacheClear(k)
    \/ \E t \in CacheTtls : UpdateTtl(t)
    \/ Tick

SpecCache == InitCache /\ [][NextCache]_vars

\* C24: cache.get(k) returns the stored tree if k has an entry younger than
\* the TTL and leaves the cache as it is; otherwise it returns None, removing
\* the entry and its timestamp if there was one; no other key is touched
C24_CacheGet ==
    [][\A k \in CacheKeys :
          CacheGet(k) =>
             /\ (k \in DOMAIN cache /\ ~AgedOut(k))
                   => /\ last'.tree = cache[k]
                      /\ cache' = cache /\ timestamps' = timestamps
             /\ (k \notin DOMAIN cache \/ AgedOut(k))
                   => /\ last'.tree = NoTree
                      /\ k \notin DOMAIN cache' /\ k \notin DOMAIN timestamps'
             /\ \A j \in DOMAIN cache \ {k} :
                   /\ j \in DOMAIN cache' /\ cache'[j] = cache[j]
                   /\ j \in DOMAIN timestamps' /\ timestamps'[j] = timestamps[j]
             /\ DOMAIN cache' \subseteq DOMAIN cache]_vars

\* C25: cache.clear(k) with a key k removes the entry of k and nothing else;
\* cache.clear() removes every entry
C25_CacheClear ==
    [][/\ \A k \in CacheKeys :
             CacheClear(k) => /\ cache' = FnDel(cache, k)
                              /\ timestamps' = FnDel(timestamps, k)
       /\ CacheClear(NoneLang) => cache' = EmptyFn /\ timestamps' = EmptyFn]_vars

\* C26: an entry stored under TTL d is returned while its age is below d and
\* is absent once its age is above d, whatever the TTL was set to since
C26_TtlNotRetroactive ==
    [][\A k \in CacheKeys :
          CacheGet(k) /\ k \in DOMAIN cache =>
             /\ now - timestamps[k] < stored_ttl[k] => last'.tree = cache[k]
             /\ now - timestamps[k] > stored_ttl[k] => last'.tree = NoTree]_vars

Lookups ==
    {NoLookup, [kind |-> "raises", val |-> NoneLang]}
        \cup {[kind |-> "returns", val |-> v] : v \in {NoneLang, "", "de", "es"}}

\* "if user_lang:" of lines 538 and 572: None and "" are false
LangGiven(val) == val # NoneLang /\ val # ""

\* the slip of taking the first fallback language when no preference is known
preferred_language_FirstFallback(lookup) ==
    IF lookup.kind = "returns" /\ LangGiven(lookup.val) THEN lookup.val
    ELSE fallback_languages[1]

\* lines 533-542 of get_for_user, 566-576 of get_for_guild: the language the
\* key is resolved with
preferred_language(lookup) ==
    CASE lookup.kind = "nostore" -> default_language
      [] lookup.kind = "raises" -> default_language
      [] OTHER -> IF LangGiven(lookup.val) THEN lookup.val ELSE default_language

\* the record of a call made with the language of the caller
CallerCall(op, lookup, path, default, placeholders, g) ==
    [CallOf(op, preferred_language(lookup), FALSE, g.load)
        EXCEPT !.path = path, !.default = default, !.ph = placeholders,
               !.text = g.text, !.lookup = lookup]

\* await TranslationHandler.get_for_user(bot, user_id, path, default, **placeholders)
GetForUser(lookup, path, default, placeholders) ==
    LET g == get_async(preferred_language(lookup), path, default, placeholders)
    IN  /\ Commit(g.load)
        /\ last' = CallerCall("get_for_user", lookup, path, default, placeholders, g)
        /\ UNCHANGED <<fallback_languages, default_language, cache_ttl_minutes,
                       files, now, writes, cfgaux, aux>>

\* await TranslationHandler.get_for_guild(bot, guild_id, path, default, **placeholders)
GetForGuild(lookup, path, default, placeholders) ==
    LET g == get_async(preferred_language(lookup), path, default, placeholders)
    IN  /\ Commit(g.load)
        /\ last' = CallerCall("get_for_guild", lookup, path, default, placeholders, g)
        /\ UNCHANGED <<fallback_languages, default_language, cache_ttl_minutes,
                       files, now, writes, cfgaux, aux>>

NextPref ==
    \/ \E k \in Lookups, p \in GetPaths, ph \in GetPlaceholders :
          GetForUser(k, p, Default, ph)
    \/ \E k \in Lookups, p \in GetPaths, ph \in GetPlaceholders :
          GetForGuild(k, p, Default, ph)
    \/ \E dl \in {"de", "es"} :
          Settings(NonePath, NoneChain, dl, NoneTtl, Omitted, Omitted, Omitted)
    \/ \E doc \in {DocNew, YamlErrorDoc} : WriteFile("es", doc)
    \/ \E st \in {"unreadable", "staterr"} : ChmodFile("en", st)

SpecPref == Init /\ [][NextPref]_vars

\* C28: get_for_user and get_for_guild resolve with the code the preference
\* store returns when that is a non-empty code, and with the configured
\* default language when there is no store, the store returns nothing or the
\* lookup raises; they raise nothing that get_async does not raise for that
\* language
C28_PerCallerLanguage ==
    [][\A k \in Lookups, p \in GetPaths, ph \in GetPlaceholders :
          (GetForUser(k, p, Default, ph) \/ GetForGuild(k, p, Default, ph)) =>
             LET lang == IF k.kind = "returns" /\ k.val \in Langs THEN k.val
                         ELSE default_language
                 g == get_async(lang, p, Default, ph)
             IN  /\ last'.lang = lang
                 /\ last'.raised = g.load.raised
                 /\ last'.text = g.text]_vars

\* reached: the lookup raised and the key was resolved in the default
\* language, which is not the first fallback language
C28_Witness ==
    /\ last.op \in {"get_for_user", "get_for_guild"}
    /\ last.lookup.kind = "raises"
    /\ last.lang = default_language /\ default_language # fallback_languages[1]
    /\ last.raised = "none" /\ last.text # last.default

\* ------------------------------------------------------------------------
\* The docstring of load_messages
\* ------------------------------------------------------------------------
\* no candidate of lang_code has a file in the translation directory
NoFileFor(lang_code) ==
    \A i \in 1..Len(Candidates(lang_code)) :
        FileAt(translation_path, Candidates(lang_code)[i]).status = "absent"

\* C29: load_messages raises FileNotFoundError when neither the requested
\* language nor any fallback language has a translation file
C29_RaisesFileNotFound ==
    [][\A l \in RequestLangs, force \in BOOLEAN :
          (LoadMessages(l, force) /\ NoFileFor(l)) =>
              last'.raised = "FileNotFoundError"]_vars

\* ------------------------------------------------------------------------
\* update_checker.py: constructing a VersionChecker
\* ------------------------------------------------------------------------
\* A version string is a sequence of tokens: a run of digits, a word, or one
\* character of punctuation or white space.
IntOf == [t \in {"0", "1", "2", "3"} |-> CASE t = "0" -> 0 [] t = "1" -> 1
                                           [] t = "2" -> 2 [] OTHER -> 3]

\* str.lower() of one token
LowerTok(t) ==
    CASE t = "BETA" -> "beta"
      [] t = "Alpha" -> "alpha"
      [] OTHER -> t

\* version_str.lower()
Lower(s) == [i \in 1..Len(s) |-> LowerTok(s[i])]

IsSpace(t) == t \in {" ", "\n"}

\* str.strip()
RECURSIVE LStrip(_)
LStrip(s) == IF s # <<>> /\ IsSpace(Head(s)) THEN LStrip(Tail(s)) ELSE s

RECURSIVE RStrip(_)
RStrip(s) ==
    IF s # <<>> /\ IsSpace(s[Len(s)]) THEN RStrip(SubSeq(s, 1, Len(s) - 1)) ELSE s

Strip(s) == RStrip(LStrip(s))

\* the values of ReleaseType that the pattern of line 442 can capture
TypeWords == {"dev", "beta", "alpha"}

\* VersionInfo.__init__, lines 237-249: raw or f"{major}.{minor}.{patch}"
VersionInfo(major, minor, patch, release_type, raw) ==
    [major |-> major, minor |-> minor, patch |-> patch, release_type |-> release_type,
     raw |-> IF raw # <<>> THEN raw
             ELSE <<ToString(major), ".", ToString(minor), ".", ToString(patch)>>]

\* re.match of line 443: (\d+)\.(\d+)\.(\d+) at the start of the string
CoreMatches(s) ==
    /\ Len(s) >= 5
    /\ s[1] \in DOMAIN IntOf /\ s[2] = "." /\ s[3] \in DOMAIN IntOf
    /\ s[4] = "." /\ s[5] \in DOMAIN IntOf

\* the optional group (?:[-_]?(dev|beta|alpha))? of line 442
TypeStr(s) ==
    IF Len(s) >= 7 /\ s[6] \in {"-", "_"} /\ s[7] \in TypeWords THEN s[7]
    ELSE IF Len(s) >= 6 /\ s[6] \in TypeWords THEN s[6]
    ELSE "None"

\* VersionChecker.parse_version, lines 427-465
parse_version(version_str) ==
    LET s == Lower(version_str)
        type_str == TypeStr(s)
    IN  IF ~CoreMatches(s) THEN VersionInfo(0, 0, 0, "unknown", version_str)
        ELSE VersionInfo(IntOf[s[1]], IntOf[s[3]], IntOf[s[5]],
                         IF type_str # "None" THEN type_str ELSE "stable",
                         version_str)

\* VersionChecker._read_version_file, lines 343-362: the text of the file, or
\* None when no file is configured, the file is missing, or exists() or
\* read_text() raises
read_version_file ==
    IF checker_settings.version_file_path = NoneVersion THEN NoneVersion
    ELSE IF version_file.status = "present" THEN Strip(version_file.text)
    ELSE NoneVersion

\* asyncio.create_task of line 341: RuntimeError("no running event loop")
\* unless a loop is running in the calling thread
create_task(running) == IF running THEN "none" ELSE "RuntimeError"

\* lines 340-341
AutoCheckOnStart(running) ==
    IF checker_settings.auto_check_on_start THEN create_task(running) ELSE "none"

\* VersionChecker.__init__, lines 313-341
new_checker(current_version, running) ==
    LET cv == IF current_version = NoneVersion /\ checker_settings.auto_read_version
              THEN read_version_file
              ELSE current_version
        made == [NoChecker EXCEPT !.made = TRUE, !.arg = current_version,
                                  !.running = running]
    IN  IF cv = NoneVersion THEN [made EXCEPT !.raised = "ValueError"]
        ELSE [made EXCEPT !.current_version = parse_version(cv),
                          !.raised = AutoCheckOnStart(running),
                          !.task = AutoCheckOnStart(running) = "none"
                                     /\ checker_settings.auto_check_on_start]

VerFrame ==
    UNCHANGED <<fallback_languages, default_language, cache_ttl_minutes, has_cache,
                cache, timestamps, ttl, file_watchers, files, now, writes, last,
                cfgaux, requested, tasks, locked, dir_status, stored_ttl>>

\* VersionChecker(current_version), called with or without a running loop
NewVersionChecker(current_version, running) ==
    /\ checker' = new_checker(current_version, running)
    /\ upd' = [NewInstance EXCEPT !.exists = checker'.raised = "none",
                                  !.current_version = checker'.current_version,
                                  !.auto = IF checker'.task THEN "sleeping" ELSE "none"]
    /\ UNCHANGED <<checker_settings, version_file>>
    /\ VerFrame

\* check_interval: Optional[int] = None
NoneInterval == -1

\* UpdateCheckerSettings.configure(version_file=..., check_interval=...,
\* auto_check=...), lines 142-144, 149-150 and 156
CheckerConfigure(version_file_arg, check_interval_arg, auto_check) ==
    /\ checker_settings' =
          [version_file_path |-> IF version_file_arg # NoneVersion THEN version_file_arg
                                 ELSE checker_settings.version_file_path,
           auto_read_version |-> IF version_file_arg # NoneVersion THEN TRUE
                                 ELSE checker_settings.auto_read_version,
           check_interval |-> IF check_interval_arg # NoneInterval THEN check_interval_arg
                              ELSE checker_settings.check_interval,
           auto_check_on_start |-> auto_check]
    /\ checker' = NoChecker
    /\ upd' = [upd EXCEPT !.call = NoCheck]
    /\ UNCHANGED version_file
    /\ VerFrame

\* the version file is written, removed, or made unreadable
SetVersionFile(status, text) ==
    /\ version_file # [status |-> status, text |-> text]
    /\ version_file' = [status |-> status, text |-> text]
    /\ checker' = NoChecker
    /\ UNCHANGED <<checker_settings, upd>>
    /\ VerFrame

VersionArgs ==
    {NoneVersion, <<>>, <<"1", ".", "2", ".", "3">>, <<"1", ".", "2">>,
     <<"2", ".", "0", ".", "1", "-", "BETA">>}

VersionTexts ==
    {<<>>, <<"1", ".", "2", ".", "3", "\n">>, <<" ", "3", ".", "0", ".", "0", "dev">>,
     <<"x">>}

VersionPaths == {NoneVersion, <<"version.txt">>}

NextVer ==
    \/ \E v \in VersionArgs, running \in BOOLEAN : NewVersionChecker(v, running)
    \/ \E f \in VersionPaths, ac \in BOOLEAN : CheckerConfigure(f, NoneInterval, ac)
    \/ \E t \in VersionTexts : SetVersionFile("present", t)
    \/ \E st \in {"absent", "unreadable", "staterr"} : SetVersionFile(st, <<>>)

SpecVer == Init /\ [][NextVer]_vars

\* a version can be resolved: an argument is given, or a configured version
\* file can be read
Resolvable(current_version) ==
    \/ current_version # NoneVersion
    \/ /\ checker_settings.version_file_path # NoneVersion
       /\ version_file.status = "present"

\* C30: constructing a VersionChecker raises only when no version is
\* resolvable; with a version string supplied it succeeds under every
\* configuration, with or without a running event loop
C30_ConstructionFailsOnlyUnresolvable ==
    [][\A v \in VersionArgs, running \in BOOLEAN :
          NewVersionChecker(v, running) =>
              /\ checker'.raised # "none" => ~Resolvable(v)
              /\ v # NoneVersion => checker'.raised = "none"]_vars

\* ------------------------------------------------------------------------
\* update_checker.py: check_for_updates and the auto-check task
\* ------------------------------------------------------------------------
\* For the update checker one step of the clock `now` is an hour.

\* VersionInfo.core, lines 251-254
Core(v) == <<v.major, v.minor, v.patch>>

\* the slip of comparing the components one by one
TupleLess_Componentwise(a, b) ==
    a[1] <= b[1] /\ a[2] <= b[2] /\ a[3] <= b[3] /\ a # b

\* a < b of two tuples of three integers
TupleLess(a, b) ==
    \/ a[1] < b[1]
    \/ a[1] = b[1] /\ a[2] < b[2]
    \/ a[1] = b[1] /\ a[2] = b[2] /\ a[3] < b[3]

\* VersionInfo.__gt__, lines 262-264
VersionGt(v, other) == TupleLess(Core(other), Core(v))

\* VersionInfo.__lt__, lines 266-268
VersionLt(v, other) == TupleLess(Core(v), Core(other))

\* VersionInfo.is_stable, lines 274-276
is_stable(v) == v.release_type = "stable"

\* VersionInfo.is_prerelease, lines 278-280
is_prerelease(v) == v.release_type \in {"alpha", "beta", "dev"}

\* fetch_latest_version found no version
NoneInfo ==
    [major |-> 0, minor |-> 0, patch |-> 0, release_type |-> "none", raw |-> NoneVersion]

\* what the request of line 479 gives: the text of a 200 response, or
\* anything else (another status, no connection, a timeout)
NoResponse == [ok |-> FALSE, text |-> <<>>]

\* fetch_latest_version, lines 467-503
fetch_latest_version(resp) ==
    IF ~resp.ok THEN NoneInfo
    ELSE IF Strip(resp.text) = <<>> THEN NoneInfo
    ELSE parse_version(Strip(resp.text))

\* fetch_release_notes, lines 505-538: the notes, or None
fetch_release_notes(notes) == notes

\* lines 571-579: the stored result is recent enough to be returned
Recent(inst) ==
    /\ inst.cached_result # NoResult
    /\ inst.last_check # NoneTime
    /\ now - inst.last_check < checker_settings.check_interval

\* lines 581-622: the result for the version that was fetched
Classify(current, latest, notes) ==
    LET dev == VersionGt(current, latest)
        upda == ~dev /\ VersionLt(current, latest)
        pre == ~dev /\ ~upda /\ is_prerelease(current) /\ is_stable(latest)
    IN  [error |-> FALSE, update_available |-> upda, current_version |-> current.raw,
         latest_version |-> latest.raw, is_prerelease |-> pre, is_dev_build |-> dev,
         release_notes |-> IF upda THEN fetch_release_notes(notes) ELSE "None"]

\* lines 583-589
ErrorResult(current) ==
    [NoResult EXCEPT !.error = TRUE, !.current_version = current.raw]

\* the slip of storing the error result as well
check_for_updates_StoreFailure(inst, by, force, resp, notes) ==
    LET latest == fetch_latest_version(resp)
        res == IF latest = NoneInfo THEN ErrorResult(inst.current_version)
               ELSE Classify(inst.current_version, latest, notes)
        call == [NoCheck EXCEPT !.op = "check_for_updates", !.force = force, !.by = by,
                                !.stored_before = inst.cached_result,
                                !.checked_before = inst.last_check]
    IN  IF ~force /\ Recent(inst)
        THEN [inst EXCEPT !.call = [call EXCEPT !.result = inst.cached_result]]
        ELSE [inst EXCEPT !.cached_result = res, !.last_check = now,
                          !.call = [call EXCEPT !.fetched = TRUE, !.response = resp,
                                                !.notes_fetched = res.update_available,
                                                !.result = res]]

\* check_for_updates(force), lines 540-628, of the instance inst: the instance
\* afterwards, with the call and its result
check_for_updates(inst, by, force, resp, notes) ==
    LET latest == fetch_latest_version(resp)
        res == Classify(inst.current_version, latest, notes)
        call == [NoCheck EXCEPT !.op = "check_for_updates", !.force = force, !.by = by,
                                !.stored_before = inst.cached_result,
                                !.checked_before = inst.last_check]
    IN  IF ~force /\ Recent(inst)
        THEN [inst EXCEPT !.call = [call EXCEPT !.result = inst.cached_result]]
        ELSE IF latest = NoneInfo
        THEN [inst EXCEPT !.call = [call EXCEPT !.fetched = TRUE, !.response = resp,
                                                !.result =
                                                   ErrorResult(inst.current_version)]]
        ELSE [inst EXCEPT !.cached_result = res, !.last_check = now,
                          !.call = [call EXCEPT !.fetched = TRUE, !.response = resp,
                                                !.notes_fetched = res.update_available,
                                                !.result = res]]

\* the slip of a task that schedules itself again
auto_check_on_init_Rearm(inst, fault, resp, notes) ==
    LET started == [inst EXCEPT !.auto_checks = inst.auto_checks + 1]
    IN  IF fault THEN started
        ELSE check_for_updates(started, "task", FALSE, resp, notes)

\* _auto_check_on_init, lines 364-370, from the end of the sleep on; fault:
\* check_for_updates raises an Exception, which line 369 catches
auto_check_on_init(inst, fault, resp, notes) ==
    LET started == [inst EXCEPT !.auto = "done", !.auto_checks = inst.auto_checks + 1]
    IN  IF fault THEN [started EXCEPT !.call = NoCheck]
        ELSE check_for_updates(started, "task", FALSE, resp, notes)

UpdFrame ==
    /\ VerFrame
    /\ UNCHANGED <<checker_settings, version_file, checker>>

\* await checker.check_for_updates(force)
CheckForUpdates(force, resp, notes) ==
    /\ upd.exists
    /\ upd' = check_for_updates(upd, "caller", force, resp, notes)
    /\ UpdFrame

\* the task created at line 341 wakes from its sleep and runs to its end
AutoCheck(fault, resp, notes) ==
    /\ upd.exists /\ upd.auto = "sleeping"
    /\ upd' = auto_check_on_init(upd, fault, resp, notes)
    /\ UpdFrame

\* an hour passes
PassHour ==
    /\ now < MaxTime
    /\ now' = now + 1
    /\ upd' = [upd EXCEPT !.call = NoCheck]
    /\ UNCHANGED <<fallback_languages, default_language, cache_ttl_minutes, has_cache,
                   cache, timestamps, ttl, file_watchers, files, writes, last,
                   cfgaux, requested, tasks, locked, dir_status, stored_ttl,
                   checker_settings, version_file, checker>>

CurrentVersions ==
    {<<"1", ".", "2", ".", "3">>, <<"2", ".", "0", ".", "1", "-", "BETA">>, <<"x">>}

LatestTexts ==
    {<<>>, <<"1", ".", "2", ".", "3", "\n">>, <<"2", ".", "0", ".", "1">>,
     <<"0", ".", "3", ".", "1">>, <<"2", ".", "0", ".", "0">>,
     <<"1", ".", "3", ".", "0", "dev">>}

Responses == {NoResponse} \cup {[ok |-> TRUE, text |-> t] : t \in LatestTexts}

Notes == {"None", "notes"}

Intervals == {1, 2}

NextUpd ==
    \/ \E v \in CurrentVersions, running \in BOOLEAN : NewVersionChecker(v, running)
    \/ \E h \in Intervals, ac \in BOOLEAN : CheckerConfigure(NoneVersion, h, ac)
    \/ \E force \in BOOLEAN, resp \in Responses, n \in Notes :
          CheckForUpdates(force, resp, n)
    \/ \E fault \in BOOLEAN, resp \in Responses, n \in Notes : AutoCheck(fault, resp, n)
    \/ PassHour

SpecUpd == Init /\ [][NextUpd]_vars

\* the responses the auto-check task is followed with
AutoResponses == {NoResponse, [ok |-> TRUE, text |-> <<"2", ".", "0", ".", "1">>]}

NextAuto ==
    \/ \E v \in CurrentVersions, running \in BOOLEAN : NewVersionChecker(v, running)
    \/ \E h \in Intervals, ac \in BOOLEAN : CheckerConfigure(NoneVersion, h, ac)
    \/ \E force \in BOOLEAN, resp \in AutoResponses :
          CheckForUpdates(force, resp, "None")
    \/ \E fault \in BOOLEAN, resp \in AutoResponses : AutoCheck(fault, resp, "None")
    \/ PassHour

\* the event loop runs a task whose sleep is over
SpecAuto ==
    /\ Init
    /\ [][NextAuto]_vars
    /\ WF_vars(\E fault \in BOOLEAN, resp \in AutoResponses :
                  AutoCheck(fault, resp, "None"))

\* a step that constructs a VersionChecker
Constructs ==
    \E v \in CurrentVersions, running \in BOOLEAN : NewVersionChecker(v, running)

\* C31: a VersionChecker schedules its delayed check only when it is
\* constructed with auto-check enabled; the task calls check_for_updates once
\* and ends, is never scheduled again, and raises nothing; under fair
\* scheduling a scheduled task does run
C31_OneShotSelfCheck ==
    /\ [][/\ (upd'.auto = "sleeping" /\ upd.auto # "sleeping") => Constructs
          /\ (upd'.auto = "sleeping" /\ Constructs) =>
                (checker_settings.auto_check_on_start /\ upd'.auto_checks = 0)
          /\ upd.auto = "done" => (upd'.auto = "done" \/ Constructs)
          /\ upd.auto = "none" => (upd'.auto = "none" \/ Constructs)
          /\ upd'.auto_checks # upd.auto_checks =>
                \/ Constructs /\ upd'.auto_checks = 0
                \/ /\ upd.auto = "sleeping" /\ upd'.auto = "done"
                   /\ upd'.auto_checks = 1
          /\ upd'.auto_raised = "none"]_vars
    /\ [](upd.auto = "done" => upd.auto_checks = 1)
    /\ (upd.auto = "sleeping" ~> upd.auto # "sleeping")

\* reached: the task of a checker made with auto-check enabled ran its one
\* check, which fetched a version, and ended
C31_Witness ==
    /\ upd.exists /\ upd.auto = "done" /\ upd.auto_checks = 1
    /\ upd.call.by = "task" /\ upd.call.fetched /\ ~upd.call.result.error
    /\ upd.cached_result = upd.call.result

\* the fetch of the latest version fails: no 200 response, or an empty one
FetchFails(resp) == ~resp.ok \/ \A i \in 1..Len(resp.text) : IsSpace(resp.text[i])

\* C39: a check that is not forced and comes less than check_interval hours
\* after the last successful one returns the stored result without fetching;
\* a forced check fetches; a failed fetch returns an error result with
\* update_available false and changes neither the stored result nor the time
\* of the last check
C39_ResultCache ==
    upd.call.op = "check_for_updates" =>
        LET c == upd.call
        IN  /\ (/\ ~c.force /\ c.checked_before # NoneTime
                /\ now - c.checked_before < checker_settings.check_interval) =>
                  /\ ~c.fetched
                  /\ c.result = c.stored_before
                  /\ ~c.stored_before.error
                  /\ upd.cached_result = c.stored_before
                  /\ upd.last_check = c.checked_before
            /\ c.force => c.fetched
            /\ (c.fetched /\ FetchFails(c.response)) =>
                  /\ c.result.error
                  /\ ~c.result.update_available
                  /\ upd.cached_result = c.stored_before
                  /\ upd.last_check = c.checked_before

\* reached: a call an hour after the last successful check returned the
\* stored result without fetching
C39_Witness ==
    /\ upd.call.op = "check_for_updates" /\ ~upd.call.force /\ ~upd.call.fetched
    /\ upd.last_check # NoneTime /\ upd.last_check < now
    /\ upd.call.result = upd.cached_result /\ upd.cached_result.update_available

\* a is before b in the lexicographic order of tuples of three integers
LexLess(a, b) ==
    \E i \in 1..3 : a[i] < b[i] /\ \A j \in 1..(i - 1) : a[j] = b[j]

\* the version that the response of the last call carries
LatestOf(c) == parse_version(Strip(c.response.text))

\* C40: of a check that fetched the latest version, update_available is true
\* exactly when the core of latest is lexicographically greater than that of
\* current, is_dev_build exactly when it is smaller, is_prerelease exactly
\* when the cores are equal, current is alpha, beta or dev and latest is
\* stable; at most one flag is true, and the release notes are fetched only
\* when update_available is true
C40_Classification ==
    (/\ upd.call.op = "check_for_updates" /\ upd.call.fetched
     /\ ~FetchFails(upd.call.response)) =>
        LET r == upd.call.result
            cur == Core(upd.current_version)
            lat == Core(LatestOf(upd.call))
        IN  /\ r.update_available <=> LexLess(cur, lat)
            /\ r.is_dev_build <=> LexLess(lat, cur)
            /\ r.is_prerelease <=>
                  /\ cur = lat
                  /\ upd.current_version.release_type \in {"alpha", "beta", "dev"}
                  /\ LatestOf(upd.call).release_type = "stable"
            /\ Cardinality({f \in {"update_available", "is_dev_build",
                                   "is_prerelease"} : r[f]}) <= 1
            /\ upd.call.notes_fetched => r.update_available

\* reached: an update is reported for a latest version whose major number is
\* greater and whose minor number is smaller than the current one
C40_Witness ==
    /\ upd.call.op = "check_for_updates" /\ upd.call.fetched
    /\ upd.call.result.update_available /\ upd.call.notes_fetched
    /\ LatestOf(upd.call).major > upd.current_version.major
    /\ LatestOf(upd.call).minor < upd.current_version.minor

\* ------------------------------------------------------------------------
\* The unchanged-source shortcut
\* ------------------------------------------------------------------------
\* C32: a tree returned through the unchanged-source shortcut for candidate
\* c, whose recorded modification time is the current one of its source, is
\* the tree that parsing that source gives
C32_ShortcutFresh ==
    (/\ Returned /\ last.via = "unchanged"
     /\ last.src \in DOMAIN file_watchers
     /\ file_watchers[last.src] = files[last.src].mtime
     /\ SourceValid(last.src)) =>
        last.tree = SourceTree(last.src)

\* ------------------------------------------------------------------------
\* A source that parses to the empty mapping
\* ------------------------------------------------------------------------
\* documents that parse to the empty mapping: {} and the empty document
EmptyDocs == {EmptyTree, NullNode}

NextEmpty ==
    \/ \E t \in Ttls :
          Settings(NonePath, NoneChain, NoneLang, t, Omitted, Omitted, Omitted)
    \/ \E l \in RequestLangs, force \in BOOLEAN : LoadMessages(l, force)
    \/ \E p \in GetPaths, ph \in GetPlaceholders : GetAsync("es", p, Default, ph)
    \/ \E p \in GetPaths, ph \in GetPlaceholders, running \in BOOLEAN :
          Get("es", p, Default, ph, running)
    \/ ClearCache("es")
    \/ Tick
    \/ \E doc \in EmptyDocs \cup {DocNew} : WriteFile("es", doc)
    \/ DeleteFile("en")

SpecEmpty == Init /\ [][NextEmpty]_vars

\* the source of l exists and parses to the empty mapping
SourceEmpty(l) ==
    files[l].status = "present" /\ files[l].doc \in EmptyDocs

\* C33: when the source of the requested language r exists and parses to the
\* empty mapping, a load of r that is not served from the cache reads r's
\* source, returns and stores the empty tree under r and touches no fallback
\* language; while that entry is younger than the TTL every non-forced call
\* for r returns it, hence the default, without touching a source
C33_EmptySourceSucceeds ==
    [][\A r \in RequestLangs :
          /\ (/\ last'.op \in LoadOps /\ last'.lang = r /\ ~last'.running
              /\ last'.via # "cache" /\ SourceEmpty(r)) =>
                /\ last'.raised = "none"
                /\ last'.via = "read" /\ last'.src = r
                /\ last'.tree = EmptyTree
                /\ r \in DOMAIN cache' /\ cache'[r] = EmptyTree
                /\ IoCodes(last'.io) = {r}
                /\ last'.op \in GetOps => last'.text = last'.default
          /\ (/\ has_cache /\ r \in DOMAIN cache /\ cache[r] = EmptyTree
              /\ r \in DOMAIN file_watchers /\ now - timestamps[r] < ttl
              /\ PlainCallFor(last', r)) =>
                /\ last'.via = "cache" /\ last'.io = <<>>
                /\ last'.tree = EmptyTree
                /\ last'.op \in GetOps => last'.text = last'.default]_vars

\* reached: es.yaml is an empty document, a load of es read it and stored the
\* empty tree, and a get for es was then served the default from that entry
\* although en.yaml has the key
C33_Witness ==
    /\ last.op \in GetOps /\ last.lang = "es" /\ last.via = "cache"
    /\ last.tree = EmptyTree /\ last.text = last.default
    /\ timestamps["es"] < now
    /\ files["es"].doc = NullNode /\ SourceEmpty("es")
    /\ "es" \in DOMAIN file_watchers /\ file_watchers["es"] = files["es"].mtime
    /\ Resolve(SourceTree("en"), last.path, last.default, last.ph) # last.default

\* ------------------------------------------------------------------------
\* The two maps of the cache
\* ------------------------------------------------------------------------
\* concurrent loads, clears and get_stats calls on a cache whose entries
\* expire: the TTL is set to one minute and the clock advances between the
\* steps of the coroutines
NextExpire ==
    \/ Quiet /\ Settings(NonePath, NoneChain, NoneLang, 1, Omitted, Omitted, Omitted)
    \/ \E t \in TaskIds, l \in {"es", "en"} : StartLoad(t, l, FALSE)
    \/ \E t \in TaskIds, l \in {"en", NoneLang} : StartClear(t, l)
    \/ \E t \in TaskIds : GetStats(t)
    \/ \E t \in TaskIds : Enter(t)
    \/ \E t \in TaskIds : Leave(t)
    \/ Quiet /\ Tick

SpecExpire == InitTasks /\ [][NextExpire]_vars

\* C34: whenever no coroutine is inside the body of a cache operation, the
\* keys of _cache are the keys of _timestamps, and every get_stats call
\* reports as many entries as languages
C34_MapsAgree ==
    /\ ~locked => DOMAIN cache = DOMAIN timestamps
    /\ \A t \in TaskIds :
          tasks[t].op = "get_stats" =>
              /\ tasks[t].stats.entries = Cardinality(tasks[t].stats.languages)
              /\ tasks[t].stats.entries = tasks[t].stats.stamps

\* reached: get_stats has reported an entry, and a get is dropping an entry
\* older than the TTL: it has deleted the key from _cache and is about to
\* delete it from _timestamps
C34_Witness ==
    \E t, u \in TaskIds :
        /\ Inside(t) /\ tasks[t].at \in {"get1", "get2"}
        /\ KeyOf(tasks[t]) \in DOMAIN timestamps \ DOMAIN cache
        /\ tasks[u].op = "get_stats" /\ tasks[u].stats.entries >= 1

\* ------------------------------------------------------------------------
\* The age of what a load returns
\* ------------------------------------------------------------------------
\* the entry under key k holds the tree the call returned and was stored no
\* longer than the TTL ago
FreshEntry(k) ==
    /\ k \in DOMAIN cache
    /\ cache[k] = last.tree
    /\ now - timestamps[k] <= ttl

\* C35: a non-forced load_messages returns a tree it read from a source in
\* that call, the empty tree after it found no valid source in that call, or
\* a cache entry stored no longer than the current TTL before the return
C35_BoundedStaleness ==
    (Returned /\ last.op = "load_messages" /\ ~last.force) =>
        \/ last.via = "read" /\ last.tree = SourceTree(last.src)
        \/ last.via = "exhausted" /\ last.tree = EmptyTree
        \/ last.via = "cache" /\ FreshEntry(last.lang)
        \/ last.via = "unchanged" /\ FreshEntry(last.src)

\* reached: a non-forced load is served from an entry exactly one TTL old,
\* after the source it came from was rewritten
C35_Witness ==
    /\ Returned /\ last.op = "load_messages" /\ ~last.force
    /\ last.via = "cache" /\ FreshEntry(last.lang)
    /\ now - timestamps[last.lang] = ttl /\ ttl > 0
    /\ \E l \in Langs : files[l].status = "present" /\ files[l].mtime > timestamps[last.lang]

\* ------------------------------------------------------------------------
\* The TTL of the cache and the configured TTL
\* ------------------------------------------------------------------------
\* C36: whenever a cache exists, its TTL is the configured cache_ttl_minutes
C36_TtlAgreement == has_cache => ttl = cache_ttl_minutes

\* ------------------------------------------------------------------------
\* clear_cache() among loads in flight
\* ------------------------------------------------------------------------
\* C37: the step in which a clear_cache() call without a language returns
\* leaves no cache entry, no insertion time and no modification time,
\* whatever other coroutines are waiting at their awaits
C37_ClearAllEmpties ==
    [][\A t \in TaskIds :
          (/\ tasks[t].op = "clear" /\ tasks[t].lang = NoneLang
           /\ tasks[t].pc # "idle" /\ tasks'[t].pc = "idle") =>
              /\ cache' = EmptyFn
              /\ timestamps' = EmptyFn
              /\ file_watchers' = EmptyFn]_vars

\* reached: a clear_cache() call is in the body of clear, having emptied
\* _cache, with entries' times and modification times still to drop, while
\* a load_messages call waits at an await
C37_Witness ==
    \E t, u \in TaskIds :
        /\ Inside(t) /\ tasks[t].op = "clear" /\ tasks[t].lang = NoneLang
        /\ cache = EmptyFn /\ timestamps # EmptyFn /\ file_watchers # EmptyFn
        /\ tasks[u].op = "load" /\ tasks[u].pc = "await"

\* ------------------------------------------------------------------------
\* Termination of concurrent calls
\* ------------------------------------------------------------------------
\* get_async(lang_code, ...) is called: line 486 awaits load_messages, the
\* rest (lines 487-503) has no await
StartGetAsync(t, lang_code) ==
    /\ Quiet /\ tasks[t].pc = "idle"
    /\ EnsureCache
    /\ tasks' = [tasks EXCEPT ![t] =
                    AwaitAt([IdleTask EXCEPT !.op = "get_async", !.lang = lang_code],
                            "get1")]
    /\ UNCHANGED <<cache, timestamps, file_watchers, locked>>
    /\ TaskFrame

\* validate_translations(lang_code) is called: the forced load of line 655
\* up to its first await
StartValidate(t, lang_code) ==
    /\ Quiet /\ tasks[t].pc = "idle"
    /\ EnsureCache
    /\ tasks' = [tasks EXCEPT ![t] =
                    Resume(EnterLoop([IdleTask EXCEPT !.op = "validate",
                                                      !.lang = lang_code,
                                                      !.force = TRUE]))]
    /\ UNCHANGED <<cache, timestamps, file_watchers, locked>>
    /\ TaskFrame

NextFair ==
    \/ \E t \in TaskIds : StartLoad(t, "es", FALSE)
    \/ \E t \in TaskIds : StartGetAsync(t, "en")
    \/ \E t \in TaskIds : StartValidate(t, "es")
    \/ \E t \in TaskIds : StartClear(t, NoneLang)
    \/ \E t \in TaskIds : Enter(t)
    \/ \E t \in TaskIds : Leave(t)
    \/ Quiet /\ ChmodFile("en", "unreadable")

\* the waiters of an asyncio.Lock are woken in the order they came and the
\* event loop runs its ready coroutines in order: a coroutine that can
\* acquire the lock again and again does acquire it, and a coroutine inside
\* a body runs to the end of the body
SpecFair ==
    /\ InitTasks
    /\ [][NextFair]_vars
    /\ \A t \in TaskIds : SF_vars(Enter(t)) /\ WF_vars(Leave(t))

\* C38: every call in flight ends; the lock is held only by a coroutine
\* inside a body, never by one stopped at an await; and within one pass of
\* the fallback loop the index of the candidate never goes back and never
\* passes the end of the tuple by more than one
C38_Termination ==
    /\ \A t \in TaskIds : (tasks[t].pc # "idle") ~> (tasks[t].pc = "idle")
    /\ [](locked <=> \E t \in TaskIds : Inside(t))
    /\ [][\A t \in TaskIds :
            (tasks[t].pc # "idle" /\ tasks'[t].cands = tasks[t].cands) =>
                /\ tasks'[t].i >= tasks[t].i
                /\ tasks'[t].i <= Len(tasks[t].cands) + 1]_vars

\* reached: a validate_translations call has returned after both of its
\* loads while another call is inside the body of a cache operation
C38_Witness ==
    \E t, u \in TaskIds :
        /\ tasks[u].op = "validate" /\ tasks[u].second /\ tasks[u].pc = "idle"
        /\ Inside(t) /\ tasks[t].op \in {"load", "get_async", "clear"}

====
